---- MODULE Spec2Model ----
(***************************************************************************)
(* PhishSniper: risk engine, risk banding, brand matcher, edit distance    *)
(* and the web batch endpoint, modelled from the Python sources.           *)
(*                                                                         *)
(* Python strings are modelled as sequences of one-character strings,      *)
(* dictionaries as functions, lists as sequences.                          *)
(***************************************************************************)
EXTENDS Integers, Sequences, FiniteSets, TLC

(***************************************************************************)
(* Bounds of the model                                                     *)
(***************************************************************************)
\* largest number of traits and matches handed to calculate_risk
MaxTraits == 3
\* largest number of items in one adjust_weights request
MaxOverrides == 2
\* longest string handed to _levenshtein_distance
MaxStrLen == 3
\* longest registrable-domain label handed to find_matches
MaxLabelLen == 5

VARIABLES
    risk_weights,   \* RiskEngine.risk_weights
    pc,             \* what the engine did last: "idle", "calculated", "adjusted"
    features,       \* argument of the last calculate_risk call
    risk_score,     \* first component of its return value
    risk_factors,   \* second component of its return value
    new_weights,    \* argument of the last adjust_weights call
    old_weights,    \* risk_weights when that call started
    lev_s1,         \* first argument of the last _levenshtein_distance call
    lev_s2,         \* second argument
    lev_result,     \* its return value
    lev_pc,         \* "idle" or "returned"
    brands,         \* BrandMatcher.brands
    bm_extracted,   \* tldextract.extract(hostname) of the last find_matches call
    bm_matches,     \* its return value
    bm_pc,          \* "idle" or "returned"
    web_pc,         \* batch_analyze: "idle", "loop" or "responded"
    web_urls,       \* its local urls
    web_verbose,    \* its local verbose
    web_i,          \* position in urls of the next loop iteration
    results,        \* its local results
    errors,         \* its local errors
    web_response,   \* the response it returned
    config,         \* PhishSniper.config, the constructor's argument
    now,            \* the day datetime.datetime.now() falls on
    an_pc,          \* PhishSniper.analyze: "idle", "lookup" (inside whois.whois),
                    \* "scoring", "returned" or "raised"
    an_url,         \* its argument url
    an_verbose,     \* its argument verbose
    an_answer,      \* what whois.whois answered in this call
    an_today,       \* the day the answer was processed on
    an_domain_info, \* its local domain_info
    an_result,      \* the AnalysisResult it returned, or the exception
    an_prev,        \* an earlier completed call: url, answer, day, score, factors
    di_pc,          \* DomainIntelligence.analyze: "idle" or "returned"
    di_hostname,    \* its argument hostname
    di_answer,      \* what whois.whois answered, if it was called
    di_lookups,     \* the arguments of its whois.whois calls
    di_result,      \* its return value
    calc_pc,        \* a thread in calculate_risk: "idle", "running", "done"
    calc_todo,      \* the traits and matches its loops have still to visit
    calc_acc,       \* its locals total_weight and risk_factors
    adj_pc,         \* a thread in adjust_weights: "idle", "running", "done"
    adj_todo,       \* the items of new_weights its loop has still to visit
    up_pc,          \* URLParser.parse: "idle", "returned" or "raised"
    up_url,         \* its argument url
    up_result       \* the dict it returned, or the exception

riskVars == <<risk_weights, pc, features, risk_score, risk_factors,
              new_weights, old_weights>>

levVars == <<lev_s1, lev_s2, lev_result, lev_pc>>

brandVars == <<brands, bm_extracted, bm_matches, bm_pc>>

webVars == <<web_pc, web_urls, web_verbose, web_i, results, errors, web_response>>

anVars == <<config, now, an_pc, an_url, an_verbose, an_answer, an_today,
            an_domain_info, an_result, an_prev>>

diVars == <<di_pc, di_hostname, di_answer, di_lookups, di_result>>

concVars == <<calc_pc, calc_todo, calc_acc, adj_pc, adj_todo>>

parseVars == <<up_pc, up_url, up_result>>

vars == <<riskVars, levVars, brandVars, webVars, anVars, diVars, concVars, parseVars>>

(***************************************************************************)
(* Generic helpers                                                         *)
(***************************************************************************)
Min2(a, b) == IF a < b THEN a ELSE b

Abs(n) == IF n < 0 THEN -n ELSE n

\* all sequences over S of length 0..n
SeqsUpTo(S, n) == UNION {[1..k -> S] : k \in 0..n}

\* An f-string is modelled by its fixed text and the values put into it
Desc(text, args) == [text |-> text, args |-> args]

Trait(type, description) == [type |-> type, description |-> description]

(***************************************************************************)
(* risk_engine.py : RiskEngine                                             *)
(***************************************************************************)
\* self.risk_weights as built by __init__
DefaultWeights ==
    ("non_standard_port" :> 15) @@ ("ip_address" :> 25) @@
    ("private_ip" :> 30) @@ ("many_subdomains" :> 15) @@
    ("suspicious_tld" :> 20) @@ ("hex_encoding" :> 30) @@
    ("punycode" :> 25) @@ ("long_url" :> 10) @@
    ("special_chars" :> 15) @@
    ("non_existent_domain" :> 40) @@ ("whois_lookup_failed" :> 15) @@
    ("new_domain" :> 25) @@ ("suspicious_registrar" :> 15) @@
    ("short_registration" :> 20) @@ ("ip_address_no_whois" :> 25) @@
    ("brand_in_domain" :> 15) @@ ("brand_in_subdomain" :> 20) @@
    ("typosquatting" :> 40) @@ ("homoglyph_attack" :> 50) @@
    ("partial_homoglyph" :> 35)

\* self.max_risk_score
max_risk_score == 100

\* Pairs <<|weight|, similarity>> for which the IEEE-754 double product
\* weight * (similarity / 100) falls just below the exact integer quotient,
\* so that int() truncates one short (e.g. 100 * (29/100) = 28.999999999999996).
\* Complete for |weight| <= 200 and similarity in 0..100.
FloatShort ==
    { <<50, 58>>, <<90, 70>>, <<100, 29>>, <<100, 57>>, <<100, 58>>,
      <<150, 82>>, <<170, 70>>, <<180, 35>>, <<180, 70>>,
      <<200, 29>>, <<200, 57>>, <<200, 58>> }

\* int(weight * (similarity / 100)): truncation toward zero of the double product
ScaledWeight(weight, similarity) ==
    LET mag  == (Abs(weight) * similarity) \div 100
        magf == IF <<Abs(weight), similarity>> \in FloatShort THEN mag - 1 ELSE mag
    IN  IF weight < 0 THEN -magf ELSE magf

\* variant: a trait of a kind without a weight is recorded with weight 0
RECURSIVE ProcessTraits_RecordsUnknown(_, _, _)
ProcessTraits_RecordsUnknown(acc, weights, traits) ==
    IF traits = <<>> THEN acc
    ELSE LET trait == Head(traits)
             trait_type == trait.type
             weight == IF trait_type \in DOMAIN weights
                       THEN weights[trait_type] ELSE 0
         IN  ProcessTraits_RecordsUnknown(
               [total_weight |-> acc.total_weight + weight,
                risk_factors |-> Append(acc.risk_factors,
                     [type |-> trait_type, weight |-> weight,
                      description |-> trait.description])],
               weights, Tail(traits))

\* one pass of the loops over features["suspicious_traits"] and
\* features["domain_info"]["suspicious_traits"]; acc = [total_weight, risk_factors]
RECURSIVE ProcessTraits(_, _, _)
ProcessTraits(acc, weights, traits) ==
    IF traits = <<>> THEN acc
    ELSE LET trait == Head(traits)
             trait_type == trait.type
         IN  IF trait_type \in DOMAIN weights
             THEN LET weight == weights[trait_type]
                  IN  ProcessTraits(
                        [total_weight |-> acc.total_weight + weight,
                         risk_factors |-> Append(acc.risk_factors,
                              [type |-> trait_type, weight |-> weight,
                               description |-> trait.description])],
                        weights, Tail(traits))
             ELSE ProcessTraits(acc, weights, Tail(traits))

\* the weight recorded for one brand match
MatchWeight(weights, match) ==
    IF match.type = "typosquatting" /\ "similarity" \in DOMAIN match
    THEN ScaledWeight(weights[match.type], match.similarity)
    ELSE weights[match.type]

\* variant: the total is increased by the table weight, before the scaling
RECURSIVE ProcessMatches_UnscaledTotal(_, _, _)
ProcessMatches_UnscaledTotal(acc, weights, matches) ==
    IF matches = <<>> THEN acc
    ELSE LET match == Head(matches)
             match_type == match.type
         IN  IF match_type \in DOMAIN weights
             THEN LET weight == MatchWeight(weights, match)
                  IN  ProcessMatches_UnscaledTotal(
                        [total_weight |-> acc.total_weight + weights[match_type],
                         risk_factors |-> Append(acc.risk_factors,
                              [type |-> match_type, weight |-> weight,
                               description |-> match.description])],
                        weights, Tail(matches))
             ELSE ProcessMatches_UnscaledTotal(acc, weights, Tail(matches))

\* the loop over features["brand_matches"]
RECURSIVE ProcessMatches(_, _, _)
ProcessMatches(acc, weights, matches) ==
    IF matches = <<>> THEN acc
    ELSE LET match == Head(matches)
             match_type == match.type
         IN  IF match_type \in DOMAIN weights
             THEN LET weight == MatchWeight(weights, match)
                  IN  ProcessMatches(
                        [total_weight |-> acc.total_weight + weight,
                         risk_factors |-> Append(acc.risk_factors,
                              [type |-> match_type, weight |-> weight,
                               description |-> match.description])],
                        weights, Tail(matches))
             ELSE ProcessMatches(acc, weights, Tail(matches))

\* the three loops of calculate_risk, before capping and sorting
Accumulate(weights, feats) ==
    LET a0 == [total_weight |-> 0, risk_factors |-> <<>>]
        a1 == IF "suspicious_traits" \in DOMAIN feats
              THEN ProcessTraits(a0, weights, feats.suspicious_traits) ELSE a0
        a2 == IF "domain_info" \in DOMAIN feats
                 /\ "suspicious_traits" \in DOMAIN feats.domain_info
              THEN ProcessTraits(a1, weights, feats.domain_info.suspicious_traits)
              ELSE a1
        a3 == IF "brand_matches" \in DOMAIN feats
              THEN ProcessMatches(a2, weights, feats.brand_matches) ELSE a2
    IN  a3

\* risk_score = min(total_weight, self.max_risk_score)
CapScore(total_weight) == Min2(total_weight, max_risk_score)

\* variant: an element is placed before the elements of equal weight
RECURSIVE InsertByWeight_Unstable(_, _)
InsertByWeight_Unstable(sorted, x) ==
    IF sorted = <<>> THEN <<x>>
    ELSE IF Head(sorted).weight > x.weight
         THEN <<Head(sorted)>> \o InsertByWeight_Unstable(Tail(sorted), x)
         ELSE <<x>> \o sorted

\* list.sort(key=weight, reverse=True) is stable: an element is placed after
\* every element already present whose weight is greater or equal
RECURSIVE InsertByWeight(_, _)
InsertByWeight(sorted, x) ==
    IF sorted = <<>> THEN <<x>>
    ELSE IF Head(sorted).weight >= x.weight
         THEN <<Head(sorted)>> \o InsertByWeight(Tail(sorted), x)
         ELSE <<x>> \o sorted

RECURSIVE SortFrom(_, _)
SortFrom(sorted, rest) ==
    IF rest = <<>> THEN sorted
    ELSE SortFrom(InsertByWeight(sorted, Head(rest)), Tail(rest))

SortByWeightDesc(factors) == SortFrom(<<>>, factors)

\* RiskEngine.calculate_risk: (risk_score, risk_factors)
CalculateRisk(weights, feats) ==
    LET acc == Accumulate(weights, feats)
    IN  [risk_score   |-> CapScore(acc.total_weight),
         risk_factors |-> SortByWeightDesc(acc.risk_factors)]

\* variant: the value is added to the entry instead of replacing it
RECURSIVE AdjustWeights_Accumulate(_, _)
AdjustWeights_Accumulate(weights, items) ==
    IF items = <<>> THEN weights
    ELSE LET key   == Head(items)[1]
             value == Head(items)[2]
         IN  IF key \in DOMAIN weights
             THEN AdjustWeights_Accumulate(
                    [weights EXCEPT ![key] = weights[key] + value], Tail(items))
             ELSE AdjustWeights_Accumulate(weights, Tail(items))

\* variant: no membership test, an unknown key is inserted
RECURSIVE AdjustWeights_InsertUnknown(_, _)
AdjustWeights_InsertUnknown(weights, items) ==
    IF items = <<>> THEN weights
    ELSE LET key   == Head(items)[1]
             value == Head(items)[2]
         IN  AdjustWeights_InsertUnknown((key :> value) @@ weights, Tail(items))

\* RiskEngine.adjust_weights: items is the new_weights dict, as the sequence
\* of its (key, value) pairs in iteration order
RECURSIVE AdjustWeights(_, _)
AdjustWeights(weights, items) ==
    IF items = <<>> THEN weights
    ELSE LET key   == Head(items)[1]
             value == Head(items)[2]
         IN  IF key \in DOMAIN weights
             THEN AdjustWeights([weights EXCEPT ![key] = value], Tail(items))
             ELSE AdjustWeights(weights, Tail(items))

(***************************************************************************)
(* brand_matcher.py : BrandMatcher._levenshtein_distance                   *)
(***************************************************************************)
Min3(a, b, c) == Min2(a, Min2(b, c))

\* variant: a substitution costs 1 even when the characters are equal
RECURSIVE LevRow_AlwaysSubstitute(_, _, _, _)
LevRow_AlwaysSubstitute(previous_row, current_row, c1, s2) ==
    LET j == Len(current_row)
    IN  IF j > Len(s2) THEN current_row
        ELSE LET insertions    == previous_row[j + 1] + 1
                 deletions     == current_row[j] + 1
                 substitutions == previous_row[j] + 1
             IN  LevRow_AlwaysSubstitute(previous_row,
                        Append(current_row, Min3(insertions, deletions, substitutions)),
                        c1, s2)

\* the inner loop: extends current_row by one cell per character of s2; the
\* 1-based position j in s2 is the length of current_row so far
RECURSIVE LevRow(_, _, _, _)
LevRow(previous_row, current_row, c1, s2) ==
    LET j == Len(current_row)
    IN  IF j > Len(s2) THEN current_row
        ELSE LET insertions    == previous_row[j + 1] + 1
                 deletions     == current_row[j] + 1
                 substitutions == previous_row[j] + (IF c1 # s2[j] THEN 1 ELSE 0)
             IN  LevRow(previous_row,
                        Append(current_row, Min3(insertions, deletions, substitutions)),
                        c1, s2)

\* the outer loop: i is the 1-based position in s1, so current_row starts
\* with enumerate's i + 1
RECURSIVE LevRows(_, _, _, _)
LevRows(previous_row, s1, s2, i) ==
    IF i > Len(s1) THEN previous_row
    ELSE LET current_row == LevRow(previous_row, <<i>>, s1[i], s2)
         IN  \* every row has len(s2) + 1 cells; previous_row = current_row
             CASE Len(current_row) = Len(s2) + 1 ->
                    LevRows(current_row, s1, s2, i + 1)

RECURSIVE LevenshteinDistance(_, _)
LevenshteinDistance(s1, s2) ==
    IF Len(s1) < Len(s2) THEN LevenshteinDistance(s2, s1)
    ELSE IF Len(s2) = 0 THEN Len(s1)
    ELSE LET first_row == [k \in 1..(Len(s2) + 1) |-> k - 1]
             last_row  == LevRows(first_row, s1, s2, 1)
         IN  last_row[Len(last_row)]

(***************************************************************************)
(* Python str operations used by the brand matcher                         *)
(***************************************************************************)
UpperCase == <<"A", "B", "C", "D", "E", "F", "G", "H", "I", "J", "K", "L", "M",
               "N", "O", "P", "Q", "R", "S", "T", "U", "V", "W", "X", "Y", "Z">>
LowerCase == <<"a", "b", "c", "d", "e", "f", "g", "h", "i", "j", "k", "l", "m",
               "n", "o", "p", "q", "r", "s", "t", "u", "v", "w", "x", "y", "z">>

ToLower == [c \in {UpperCase[i] : i \in 1..26} |->
               LowerCase[CHOOSE i \in 1..26 : UpperCase[i] = c]]

LowerChar(c) == IF c \in DOMAIN ToLower THEN ToLower[c] ELSE c

\* str.lower()
Lower(str) == [i \in 1..Len(str) |-> LowerChar(str[i])]

\* sub in str
Contains(sub, str) ==
    \E i \in 0..(Len(str) - Len(sub)) : SubSeq(str, i + 1, i + Len(sub)) = sub

\* str.replace(old, new), old not empty: leftmost occurrences, not overlapping
RECURSIVE Replace(_, _, _)
Replace(str, old, new) ==
    IF Len(str) < Len(old) THEN str
    ELSE IF SubSeq(str, 1, Len(old)) = old
         THEN new \o Replace(SubSeq(str, Len(old) + 1, Len(str)), old, new)
         ELSE <<Head(str)>> \o Replace(Tail(str), old, new)

(***************************************************************************)
(* fuzzywuzzy.fuzz.ratio with python-Levenshtein (setup.py install_requires)*)
(***************************************************************************)
\* edit distance in which a substitution costs 2 (delete + insert)
RECURSIVE IndelRow(_, _, _, _)
IndelRow(previous_row, current_row, c1, s2) ==
    LET j == Len(current_row)
    IN  IF j > Len(s2) THEN current_row
        ELSE LET insertions    == previous_row[j + 1] + 1
                 deletions     == current_row[j] + 1
                 substitutions == previous_row[j] + (IF c1 # s2[j] THEN 2 ELSE 0)
             IN  IndelRow(previous_row,
                        Append(current_row, Min3(insertions, deletions, substitutions)),
                        c1, s2)

RECURSIVE IndelRows(_, _, _, _)
IndelRows(previous_row, s1, s2, i) ==
    IF i > Len(s1) THEN previous_row
    ELSE LET current_row == IndelRow(previous_row, <<i>>, s1[i], s2)
         IN  CASE Len(current_row) = Len(s2) + 1 ->
                    IndelRows(current_row, s1, s2, i + 1)

IndelDistance(s1, s2) ==
    LET first_row == [k \in 1..(Len(s2) + 1) |-> k - 1]
        last_row  == IndelRows(first_row, s1, s2, 1)
    IN  last_row[Len(last_row)]

\* int(round(num / den)), Python 3 rounding of a tie to the even integer
RoundHalfEven(num, den) ==
    LET q == num \div den
        r == num % den
    IN  IF 2 * r < den THEN q
        ELSE IF 2 * r > den THEN q + 1
        ELSE IF q % 2 = 0 THEN q ELSE q + 1

\* fuzz.ratio: 100 for equal strings, 0 if one is empty, else
\* intr(100 * (lensum - indel distance) / lensum)
Ratio(s1, s2) ==
    IF s1 = s2 THEN 100
    ELSE IF Len(s1) = 0 \/ Len(s2) = 0 THEN 0
    ELSE LET lensum == Len(s1) + Len(s2)
         IN  RoundHalfEven(100 * (lensum - IndelDistance(s1, s2)), lensum)

(***************************************************************************)
(* brand_matcher.py : BrandMatcher                                         *)
(***************************************************************************)
fuzzy_threshold == 85

levenshtein_threshold == 2

\* the homoglyphs dict literal of _check_homoglyphs, as written
HomoglyphLiteral ==
    << <<<<"0">>, <<"o">>>>, <<<<"o">>, <<"0">>>>,
       <<<<"1">>, <<"l">>>>, <<<<"l">>, <<"1">>>>,
       <<<<"i">>, <<"1">>>>, <<<<"1">>, <<"i">>>>,
       <<<<"5">>, <<"s">>>>, <<<<"s">>, <<"5">>>>,
       <<<<"r", "n">>, <<"m">>>>, <<<<"m">>, <<"r", "n">>>>,
       <<<<"c", "l">>, <<"d">>>>, <<<<"d">>, <<"c", "l">>>>,
       <<<<"v", "v">>, <<"w">>>>, <<<<"w">>, <<"v", "v">>>>,
       <<<<"n", "n">>, <<"m">>>>, <<<<"m">>, <<"n", "n">>>> >>

\* a dict display keeps one item per key: a repeated key keeps its first
\* position and takes the last value
RECURSIVE DictItems(_, _)
DictItems(done, literal) ==
    IF literal = <<>> THEN done
    ELSE LET key == Head(literal)[1]
             val == Head(literal)[2]
         IN  IF \E i \in 1..Len(done) : done[i][1] = key
             THEN DictItems([i \in 1..Len(done) |->
                                IF done[i][1] = key THEN <<key, val>> ELSE done[i]],
                            Tail(literal))
             ELSE DictItems(Append(done, <<key, val>>), Tail(literal))

\* homoglyphs.items()
Homoglyphs == DictItems(<<>>, HomoglyphLiteral)

\* the loop over homoglyphs.items() for one brand
RECURSIVE HomoglyphsOfBrand(_, _, _)
HomoglyphsOfBrand(brand, domain, items) ==
    IF items = <<>> THEN <<>>
    ELSE LET original       == Head(items)[1]
             replacement    == Head(items)[2]
             modified_brand == Replace(brand, original, replacement)
             rest           == HomoglyphsOfBrand(brand, domain, Tail(items))
         IN  IF Contains(original, brand)
             THEN IF Lower(domain) = Lower(modified_brand)
                  THEN <<[type |-> "homoglyph_attack", brand |-> brand,
                          value |-> domain,
                          substitution |-> <<original, replacement>>,
                          description |->
                            Desc("Homoglyph attack on '{brand}' (replacing '{original}' with '{replacement}')",
                                 <<brand, original, replacement>>)]>> \o rest
                  ELSE IF Contains(Lower(modified_brand), Lower(domain))
                  THEN <<[type |-> "partial_homoglyph", brand |-> brand,
                          value |-> domain,
                          substitution |-> <<original, replacement>>,
                          description |->
                            Desc("Partial homoglyph match for '{brand}' in domain",
                                 <<brand>>)]>> \o rest
                  ELSE rest
             ELSE rest

\* the concatenation of per_brand[lo], ..., per_brand[hi]
RECURSIVE ConcatRange(_, _, _)
ConcatRange(per_brand, lo, hi) ==
    IF lo > hi THEN <<>>
    ELSE IF lo = hi THEN per_brand[lo]
    ELSE LET mid == (lo + hi) \div 2
         IN  ConcatRange(per_brand, lo, mid) \o ConcatRange(per_brand, mid + 1, hi)

\* BrandMatcher._check_homoglyphs: the loop over self.brands
CheckHomoglyphs(brand_list, domain) ==
    ConcatRange([i \in 1..Len(brand_list) |->
                    IF Len(brand_list[i]) < 4 THEN <<>>
                    ELSE HomoglyphsOfBrand(brand_list[i], domain, Homoglyphs)],
                1, Len(brand_list))

\* body of the first loop of find_matches; the continue on an exact match
\* also skips the subdomain test of that brand
ContainmentOfBrand(brand, extracted) ==
    LET domain == extracted.domain
        in_domain ==
            <<[type |-> "brand_in_domain", brand |-> brand, value |-> domain,
               description |-> Desc("Brand '{brand}' found in domain", <<brand>>)]>>
        in_subdomain ==
            IF extracted.subdomain # <<>>
               /\ Contains(brand, Lower(extracted.subdomain))
            THEN <<[type |-> "brand_in_subdomain", brand |-> brand,
                    value |-> extracted.subdomain,
                    description |-> Desc("Brand '{brand}' found in subdomain",
                                         <<brand>>)]>>
            ELSE <<>>
    IN  IF Contains(brand, Lower(domain))
        THEN IF Lower(domain) = Lower(brand)
             THEN <<>>
             ELSE in_domain \o in_subdomain
        ELSE in_subdomain

\* variant: a small edit distance counts for a brand of any length
TyposquattingOfBrand_AnyLength(brand, domain) ==
    LET ratio == Ratio(Lower(domain), Lower(brand))
        levenshtein == LevenshteinDistance(Lower(domain), Lower(brand))
    IN  IF Len(brand) < 4 THEN <<>>
        ELSE IF ratio >= fuzzy_threshold \/ levenshtein <= levenshtein_threshold
        THEN IF Lower(domain) = Lower(brand)
             THEN <<>>
             ELSE <<[type |-> "typosquatting", brand |-> brand,
                     value |-> domain, similarity |-> ratio,
                     levenshtein |-> levenshtein,
                     description |->
                       Desc("Possible typosquatting of '{brand}' (similarity: {ratio}%)",
                            <<brand, <<ratio>>>>)]>>
        ELSE <<>>

\* variant: the exact match is not skipped
TyposquattingOfBrand_NoExactSkip(brand, domain) ==
    LET ratio == Ratio(Lower(domain), Lower(brand))
        levenshtein == LevenshteinDistance(Lower(domain), Lower(brand))
    IN  IF Len(brand) < 4 THEN <<>>
        ELSE IF ratio >= fuzzy_threshold
                \/ (levenshtein <= levenshtein_threshold /\ Len(brand) > 4)
        THEN <<[type |-> "typosquatting", brand |-> brand,
                value |-> domain, similarity |-> ratio,
                levenshtein |-> levenshtein,
                description |->
                  Desc("Possible typosquatting of '{brand}' (similarity: {ratio}%)",
                       <<brand, <<ratio>>>>)]>>
        ELSE <<>>

\* body of the second loop of find_matches
TyposquattingOfBrand(brand, domain) ==
    LET ratio == Ratio(Lower(domain), Lower(brand))
        levenshtein == LevenshteinDistance(Lower(domain), Lower(brand))
    IN  IF Len(brand) < 4 THEN <<>>
        ELSE IF ratio >= fuzzy_threshold
                \/ (levenshtein <= levenshtein_threshold /\ Len(brand) > 4)
        THEN IF Lower(domain) = Lower(brand)
             THEN <<>>
             ELSE <<[type |-> "typosquatting", brand |-> brand,
                     value |-> domain, similarity |-> ratio,
                     levenshtein |-> levenshtein,
                     description |->
                       Desc("Possible typosquatting of '{brand}' (similarity: {ratio}%)",
                            <<brand, <<ratio>>>>)]>>
        ELSE <<>>

\* BrandMatcher.find_matches, on the result of tldextract.extract(hostname)
FindMatches(brand_list, extracted) ==
    ConcatRange([i \in 1..Len(brand_list) |->
                    ContainmentOfBrand(brand_list[i], extracted)],
                1, Len(brand_list))
    \o ConcatRange([i \in 1..Len(brand_list) |->
                       TyposquattingOfBrand(brand_list[i], extracted.domain)],
                   1, Len(brand_list))
    \o CheckHomoglyphs(brand_list, extracted.domain)

(***************************************************************************)
(* url_parser.py : URLParser                                               *)
(*                                                                         *)
(* A URL is given together with what urllib.parse.urlparse and             *)
(* tldextract.extract return for it:                                       *)
(*   [raw, is_str, normalized, scheme, netloc, path, query, fragment,      *)
(*    extracted, geturl_len]                                               *)
(* raw names the value the caller passed; is_str is FALSE for a JSON value *)
(* that is not a string; normalized is raw with http:// put in front when  *)
(* it has no scheme.                                                       *)
(***************************************************************************)
Digits == {"0", "1", "2", "3", "4", "5", "6", "7", "8", "9"}

HexDigits == Digits \cup {"a", "b", "c", "d", "e", "f", "A", "B", "C", "D", "E", "F"}

Letters == {LowerCase[i] : i \in 1..26} \cup {UpperCase[i] : i \in 1..26}

\* self.suspicious_tlds
suspicious_tlds ==
    { <<"t", "k">>,
      <<"m", "l">>,
      <<"g", "a">>,
      <<"c", "f">>,
      <<"g", "q">>,
      <<"x", "y", "z">>,
      <<"t", "o", "p">>,
      <<"w", "o", "r", "k">>,
      <<"d", "a", "t", "e">>,
      <<"b", "i", "d">>,
      <<"s", "t", "r", "e", "a", "m">>,
      <<"r", "a", "c", "i", "n", "g">>,
      <<"w", "i", "n">>,
      <<"r", "e", "v", "i", "e", "w">>,
      <<"c", "o", "u", "n", "t", "r", "y">>,
      <<"s", "c", "i", "e", "n", "c", "e">>,
      <<"d", "o", "w", "n", "l", "o", "a", "d">> }

\* positions of character c in str
Positions(str, c) == {i \in 1..Len(str) : str[i] = c}

Max(S) == CHOOSE x \in S : \A y \in S : y <= x
Min(S) == CHOOSE x \in S : \A y \in S : x <= y

\* str.split(c)[0]
BeforeFirst(str, c) ==
    IF Positions(str, c) = {} THEN str
    ELSE SubSeq(str, 1, Min(Positions(str, c)) - 1)

\* str.split(c)[-1]
AfterLast(str, c) ==
    IF Positions(str, c) = {} THEN str
    ELSE SubSeq(str, Max(Positions(str, c)) + 1, Len(str))

\* str.endswith(suffix)
EndsWith(str, suffix) ==
    /\ Len(suffix) <= Len(str)
    /\ SubSeq(str, Len(str) - Len(suffix) + 1, Len(str)) = suffix

\* self.hex_pattern.search(str): %[0-9a-fA-F]{2}
HexPatternSearch(str) ==
    \E i \in 1..(Len(str) - 2) :
        str[i] = "%" /\ str[i + 1] \in HexDigits /\ str[i + 2] \in HexDigits

AllDigits(str) == \A i \in 1..Len(str) : str[i] \in Digits

\* self.ip_pattern.search(str): \d{1,3}\.\d{1,3}\.\d{1,3}\.\d{1,3} anywhere in
\* str: three dots, 1 to 3 digits between neighbouring dots, a digit before
\* the first and after the last
IpPatternSearch(str) ==
    \E i, j, k \in Positions(str, ".") :
        /\ i < j /\ j < k
        /\ j - i - 1 \in 1..3 /\ AllDigits(SubSeq(str, i + 1, j - 1))
        /\ k - j - 1 \in 1..3 /\ AllDigits(SubSeq(str, j + 1, k - 1))
        /\ i > 1 /\ str[i - 1] \in Digits
        /\ k < Len(str) /\ str[k + 1] \in Digits

DigitValue(c) == CHOOSE n \in 0..9 : <<"0", "1", "2", "3", "4", "5", "6", "7", "8", "9">>[n + 1] = c

\* the number written by a string of at most 9 decimal digits
RECURSIVE DecimalValue(_)
DecimalValue(str) ==
    IF str = <<>> THEN 0
    ELSE 10 * DecimalValue(SubSeq(str, 1, Len(str) - 1)) + DigitValue(str[Len(str)])

\* str.split(".")
RECURSIVE SplitDots(_)
SplitDots(str) ==
    IF Positions(str, ".") = {} THEN <<str>>
    ELSE <<BeforeFirst(str, ".")>>
         \o SplitDots(SubSeq(str, Min(Positions(str, ".")) + 1, Len(str)))

\* ipaddress.ip_address(str) succeeds with an IPv4Address: four decimal
\* octets of 1 to 3 digits, none above 255, none with a leading zero
IsIPv4Address(str) ==
    LET parts == SplitDots(str)
    IN  /\ Len(parts) = 4
        /\ \A i \in 1..4 :
              /\ Len(parts[i]) \in 1..3
              /\ AllDigits(parts[i])
              /\ (Len(parts[i]) > 1 => parts[i][1] # "0")
              /\ DecimalValue(parts[i]) <= 255

\* IPv4Address.is_private: the networks of ipaddress._private_networks
IsPrivateIPv4(str) ==
    LET parts == SplitDots(str)
        a == DecimalValue(parts[1])
        b == DecimalValue(parts[2])
        c == DecimalValue(parts[3])
        d == DecimalValue(parts[4])
    IN  \/ a = 0
        \/ a = 10
        \/ a = 127
        \/ a = 169 /\ b = 254
        \/ a = 172 /\ b \in 16..31
        \/ a = 192 /\ b = 0 /\ c = 0 /\ d \in 0..7
        \/ a = 192 /\ b = 0 /\ c = 0 /\ d \in 170..171
        \/ a = 192 /\ b = 0 /\ c = 2
        \/ a = 192 /\ b = 168
        \/ a = 198 /\ b \in 18..19
        \/ a = 198 /\ b = 51 /\ c = 100
        \/ a = 203 /\ b = 0 /\ c = 113
        \/ a >= 240

\* str.isalnum() of one ASCII character
IsAlnum(c) == c \in Digits \/ c \in Letters

\* URLParser._analyze_suspicious_traits; [raised |-> TRUE, error |-> ...] when
\* the hex branch evaluates the name url, which the method does not define
AnalyzeSuspiciousTraits(parsed, extracted) ==
    LET netloc == parsed.netloc
        host   == BeforeFirst(netloc, ":")
        port   == AfterLast(netloc, ":")
        non_standard_port ==
            IF Positions(netloc, ":") # {}
               /\ ~(EndsWith(netloc, <<":", "8", "0">>)
                    \/ EndsWith(netloc, <<":", "4", "4", "3">>))
            THEN <<Trait("non_standard_port",
                         Desc("Non-standard port {port} in use", <<port>>))>>
            ELSE <<>>
        ip_address ==
            IF IpPatternSearch(host)
            THEN <<Trait("ip_address",
                         Desc("IP address used instead of domain name", <<>>))>>
                 \o (IF IsIPv4Address(host) /\ IsPrivateIPv4(host)
                     THEN <<Trait("private_ip", Desc("Private IP address used", <<>>))>>
                     ELSE <<>>)
            ELSE <<>>
        subdomain_parts == SplitDots(extracted.subdomain)
        many_subdomains ==
            IF Len(subdomain_parts) > 3
            THEN <<Trait("many_subdomains",
                         Desc("Excessive number of subdomains ({n})",
                              <<<<Len(subdomain_parts)>>>>))>>
            ELSE <<>>
        suspicious_tld ==
            IF extracted.suffix \in suspicious_tlds
            THEN <<Trait("suspicious_tld",
                         Desc("Suspicious TLD '{suffix}'", <<extracted.suffix>>))>>
            ELSE <<>>
        hex_found == HexPatternSearch(netloc) \/ HexPatternSearch(parsed.path)
        punycode ==
            IF Contains(<<"x", "n", "-", "-">>, netloc)
            THEN <<Trait("punycode", Desc("Punycode (IDN) encoding detected", <<>>))>>
            ELSE <<>>
        url_length == parsed.geturl_len
        long_url ==
            IF url_length > 100
            THEN <<Trait("long_url",
                         Desc("Excessively long URL ({n} characters)",
                              <<<<url_length>>>>))>>
            ELSE <<>>
        special_chars ==
            Cardinality({i \in 1..Len(netloc) :
                           ~IsAlnum(netloc[i]) /\ netloc[i] \notin {".", "-", ":"}})
        special ==
            IF special_chars > 3
            THEN <<Trait("special_chars",
                         Desc("Excessive special characters in domain ({n})",
                              <<<<special_chars>>>>))>>
            ELSE <<>>
    IN  IF hex_found
        THEN [raised |-> TRUE, error |-> "name 'url' is not defined"]
        ELSE [raised |-> FALSE,
              value |-> non_standard_port \o ip_address \o many_subdomains
                        \o suspicious_tld \o punycode \o long_url \o special]

\* URLParser.parse: the str method startswith fails on a value that is not a
\* string; the decomposition itself is the one given with the URL
UrlParse(url) ==
    IF ~url.is_str
    THEN [raised |-> TRUE, error |-> "object has no attribute 'startswith'"]
    ELSE LET traits == AnalyzeSuspiciousTraits(url, url.extracted)
         IN  IF traits.raised THEN traits
             ELSE [raised |-> FALSE,
                   value |-> [url |-> url.normalized,
                              scheme |-> url.scheme,
                              hostname |-> url.netloc,
                              path |-> url.path,
                              query |-> url.query,
                              fragment |-> url.fragment,
                              domain |-> url.extracted.domain,
                              subdomain |-> url.extracted.subdomain,
                              tld |-> url.extracted.suffix,
                              suspicious_traits |-> traits.value]]

(***************************************************************************)
(* domain_intelligence.py : DomainIntelligence                             *)
(***************************************************************************)
\* self.suspicious_registrars
suspicious_registrars ==
    { <<"n", "a", "m", "e", "c", "h", "e", "a", "p">>,
      <<"n", "a", "m", "e", "s", "i", "l", "o">>,
      <<"n", "a", "m", "e", "b", "r", "i", "g", "h", "t">>,
      <<"p", "o", "r", "k", "b", "u", "n">>,
      <<"d", "y", "n", "a", "d", "o", "t">>,
      <<"i", "n", "t", "e", "r", "n", "e", "t", "b", "s">>,
      <<"e", "p", "i", "k">>,
      <<"r", "e", "g", "r", "u">> }

\* self.min_domain_age
min_domain_age == 30

OctalDigits == {"0", "1", "2", "3", "4", "5", "6", "7"}

HexValue(c) ==
    IF c \in Digits THEN DigitValue(c)
    ELSE CHOOSE n \in 10..15 :
           <<"a", "b", "c", "d", "e", "f">>[n - 9] = LowerChar(c)

\* the number written by digits in the given base
RECURSIVE BaseValue(_, _)
BaseValue(str, base) ==
    IF str = <<>> THEN 0
    ELSE base * BaseValue(SubSeq(str, 1, Len(str) - 1), base) + HexValue(str[Len(str)])

\* one dot-separated part as inet_aton reads it (0x.. hexadecimal, 0.. octal,
\* else decimal), -1 if it is not a number; parts of at most 7 digits
AtonPart(part) ==
    IF Len(part) > 2 /\ part[1] = "0" /\ part[2] \in {"x", "X"}
    THEN LET ds == SubSeq(part, 3, Len(part))
         IN  IF Len(ds) <= 7 /\ \A i \in 1..Len(ds) : ds[i] \in HexDigits
             THEN BaseValue(ds, 16) ELSE -1
    ELSE IF Len(part) > 1 /\ part[1] = "0"
    THEN IF Len(part) <= 8 /\ \A i \in 1..Len(part) : part[i] \in OctalDigits
         THEN BaseValue(part, 8) ELSE -1
    ELSE IF Len(part) \in 1..7 /\ AllDigits(part)
    THEN BaseValue(part, 10) ELSE -1

\* DomainIntelligence._is_ip_address: socket.inet_aton accepts a, a.b, a.b.c
\* and a.b.c.d; the last part fills the remaining bytes
IsIpAddress(hostname) ==
    LET parts == SplitDots(hostname)
        n     == Len(parts)
    IN  /\ n \in 1..4
        /\ \A i \in 1..n : AtonPart(parts[i]) >= 0
        /\ \A i \in 1..(n - 1) : AtonPart(parts[i]) <= 255
        /\ (n = 4 => AtonPart(parts[4]) <= 255)
        /\ (n = 3 => AtonPart(parts[3]) <= 65535)
        /\ (n = 2 => AtonPart(parts[2]) <= 16777215)

\* variant: the port stays on the host name
StripPort_Kept(hostname) == hostname

\* if ":" in hostname: hostname = hostname.split(":")[0]
StripPort(hostname) == BeforeFirst(hostname, ":")

\* f"{extracted.domain}.{extracted.suffix}" if extracted.suffix else extracted.domain
RegisteredDomain(extracted) ==
    IF extracted.suffix # <<>>
    THEN extracted.domain \o <<".">> \o extracted.suffix
    ELSE extracted.domain

\* the arguments of the whois.whois calls DomainIntelligence.analyze makes
WhoisLookups(netloc, extracted) ==
    IF IsIpAddress(StripPort(netloc)) THEN <<>>
    ELSE <<RegisteredDomain(extracted)>>

\* variant: the failure of the lookup is swallowed without a trait
LookupFailedTraits_Swallowed == <<>>

\* what the except block of DomainIntelligence.analyze appends
LookupFailedTraits ==
    <<Trait("whois_lookup_failed",
            Desc("WHOIS lookup failed, which may indicate a suspicious domain", <<>>))>>

\* DomainIntelligence.analyze for a host name, its tldextract result, the
\* answer of whois.whois and the day datetime.now() falls on. Dates are day
\* numbers. The answer is one of
\*   [kind |-> "raises"]
\*   [kind |-> "no_record"]                  domain_name is None
\*   [kind |-> "record", has_creation, creation_date, has_expiration,
\*    expiration_date, registrar]
\*   [kind |-> "record_str_date", registrar]  creation_date is a string the
\*                                            library could not parse
\* registrar <<>> and domain_age_days <<>> stand for None
DomainAnalyze(netloc, extracted, answer, today) ==
    LET hostname == StripPort(netloc)
        domain == RegisteredDomain(extracted)
        base == [domain |-> domain, domain_exists |-> FALSE,
                 registrar |-> <<>>, domain_age_days |-> <<>>,
                 suspicious_traits |-> <<>>]
        age_days == today - answer.creation_date
        new_domain ==
            IF answer.has_creation /\ age_days < min_domain_age
            THEN <<Trait("new_domain",
                         Desc("Domain was registered recently ({n} days ago)",
                              <<<<age_days>>>>))>>
            ELSE <<>>
        suspicious_registrar ==
            IF answer.registrar # <<>>
               /\ \E sr \in suspicious_registrars : Contains(sr, Lower(answer.registrar))
            THEN <<Trait("suspicious_registrar",
                         Desc("Domain registered with suspicious registrar: {registrar}",
                              <<answer.registrar>>))>>
            ELSE <<>>
        registration_period == answer.expiration_date - answer.creation_date
        short_registration ==
            IF answer.has_creation /\ answer.has_expiration
               /\ registration_period < 365
            THEN <<Trait("short_registration",
                         Desc("Short registration period ({n} days)",
                              <<<<registration_period>>>>))>>
            ELSE <<>>
    IN  IF IsIpAddress(hostname)
        THEN [base EXCEPT !.suspicious_traits =
                <<Trait("ip_address_no_whois",
                        Desc("IP address used instead of domain name (no WHOIS data)",
                             <<>>))>>]
        ELSE IF answer.kind = "raises"
        THEN [base EXCEPT !.suspicious_traits = LookupFailedTraits]
        ELSE IF answer.kind = "no_record"
        THEN [base EXCEPT !.suspicious_traits =
                <<Trait("non_existent_domain",
                        Desc("Domain does not exist in WHOIS records", <<>>))>>]
        ELSE IF answer.kind = "record_str_date"
        THEN \* datetime.now() - str raises TypeError inside the try block
             [base EXCEPT !.domain_exists = TRUE,
                          !.registrar = answer.registrar,
                          !.suspicious_traits = LookupFailedTraits]
        ELSE [base EXCEPT !.domain_exists = TRUE,
                          !.registrar = answer.registrar,
                          !.domain_age_days =
                              IF answer.has_creation THEN <<age_days>> ELSE <<>>,
                          !.suspicious_traits =
                              new_domain \o suspicious_registrar \o short_registration]

(***************************************************************************)
(* result.py : AnalysisResult                                              *)
(***************************************************************************)
\* variant: the Low band includes 30 and the Medium band includes 70
RiskLevel_Inclusive(score) ==
    IF score <= 30 THEN "Low"
    ELSE IF score <= 70 THEN "Medium"
    ELSE "High"

\* AnalysisResult.risk_level
RiskLevel(score) ==
    IF score < 30 THEN "Low"
    ELSE IF score < 70 THEN "Medium"
    ELSE "High"

\* AnalysisResult.to_dict; features is <<>> for None
\* variant: the features key is written whatever features holds
ToDict_AlwaysFeatures(result) ==
    [url |-> result.url,
     risk_score |-> result.risk_score,
     risk_level |-> RiskLevel(result.risk_score),
     risk_factors |-> result.risk_factors,
     features |-> result.features]

ToDict(result) ==
    LET d == [url |-> result.url,
              risk_score |-> result.risk_score,
              risk_level |-> RiskLevel(result.risk_score),
              risk_factors |-> result.risk_factors]
    IN  IF DOMAIN result.features # {}
        THEN d @@ [features |-> result.features]
        ELSE d

(***************************************************************************)
(* phishsniper.py : PhishSniper.analyze                                    *)
(***************************************************************************)
\* analyze(url, verbose) with the given weight table and brand list, when
\* whois.whois answers with answer; [raised |-> TRUE, ...] if it raises
Analyze(url, verbose, answer, today, weights, brand_list) ==
    LET parsed == UrlParse(url)
    IN  IF parsed.raised THEN parsed
        ELSE LET url_features  == parsed.value
                 domain_info   == DomainAnalyze(url_features.hostname,
                                                url.extracted, answer, today)
                 brand_matches == FindMatches(brand_list, url.extracted)
                 all_features  == url_features
                                  @@ [domain_info |-> domain_info,
                                      brand_matches |-> brand_matches]
                 risk          == CalculateRisk(weights, all_features)
             IN  [raised |-> FALSE,
                  value |-> [url |-> url.raw,
                             risk_score |-> risk.risk_score,
                             risk_factors |-> risk.risk_factors,
                             features |-> IF verbose THEN all_features ELSE <<>>]]

(***************************************************************************)
(* Inputs of the risk engine                                               *)
(***************************************************************************)
\* traits as url_parser.py emits them, and one kind without a weight
UrlTraitPool ==
    { Trait("ip_address", Desc("IP address used instead of domain name", <<>>)),
      Trait("private_ip", Desc("Private IP address used", <<>>)),
      Trait("unweighted_kind", Desc("a trait kind that has no weight", <<>>)) }

\* traits as domain_intelligence.py emits them
DomainTraitPool ==
    { Trait("non_existent_domain",
            Desc("Domain does not exist in WHOIS records", <<>>)),
      Trait("ip_address_no_whois",
            Desc("IP address used instead of domain name (no WHOIS data)", <<>>)) }

\* matches as brand_matcher.py emits them, and one kind without a weight
MatchPool ==
    { [type |-> "typosquatting", brand |-> <<"a", "m", "a", "z", "o", "n">>,
       similarity |-> 85,
       description |-> Desc("Possible typosquatting of '{brand}' (similarity: {ratio}%)",
                            <<<<"a", "m", "a", "z", "o", "n">>, <<85>>>>)],
      [type |-> "typosquatting", brand |-> <<"e", "b", "a", "y">>,
       similarity |-> 58,
       description |-> Desc("Possible typosquatting of '{brand}' (similarity: {ratio}%)",
                            <<<<"e", "b", "a", "y">>, <<58>>>>)],
      [type |-> "homoglyph_attack", brand |-> <<"a", "m", "a", "z", "o", "n">>,
       description |-> Desc("Homoglyph attack on '{brand}' (replacing '{original}' with '{replacement}')",
                            <<<<"a", "m", "a", "z", "o", "n">>, <<"o">>, <<"0">>>>)],
      [type |-> "unweighted_match", brand |-> <<"e", "b", "a", "y">>,
       description |-> Desc("a match kind that has no weight", <<>>)] }

\* how many URL traits, registration traits and brand matches a bag holds
FeatureShapes ==
    { t \in (0..MaxTraits) \X (0..MaxTraits) \X (0..MaxTraits) :
        t[1] + t[2] + t[3] <= MaxTraits }

\* the feature bags handed to calculate_risk, with at most MaxTraits traits
\* and matches in all; <<>> is the empty dict
FeatureInputs ==
    UNION { { [suspicious_traits |-> u,
               domain_info |-> [suspicious_traits |-> d],
               brand_matches |-> m] :
                 u \in [1..t[1] -> UrlTraitPool],
                 d \in [1..t[2] -> DomainTraitPool],
                 m \in [1..t[3] -> MatchPool] } : t \in FeatureShapes }
    \cup { <<>> }

AdjustKeys == {"private_ip", "typosquatting", "unknown_factor"}
AdjustValues == {-30, 100}

\* a dict has each key once
DistinctKeys(items) ==
    \A i, j \in 1..Len(items) : i # j => items[i][1] # items[j][1]

OverrideInputs ==
    { w \in SeqsUpTo(AdjustKeys \X AdjustValues, MaxOverrides) : DistinctKeys(w) }

NoFeatures == <<>>

(***************************************************************************)
(* The risk engine as a state machine                                      *)
(***************************************************************************)
RiskInit ==
    /\ risk_weights = DefaultWeights
    /\ pc = "idle"
    /\ features = NoFeatures
    /\ risk_score = 0
    /\ risk_factors = <<>>
    /\ new_weights = <<>>
    /\ old_weights = DefaultWeights

\* a caller invokes calculate_risk(feats)
DoCalculateRisk(feats) ==
    /\ pc = "idle"
    /\ LET r == CalculateRisk(risk_weights, feats)
       IN  /\ risk_score' = r.risk_score
           /\ risk_factors' = r.risk_factors
    /\ features' = feats
    /\ pc' = "calculated"
    /\ UNCHANGED <<risk_weights, new_weights, old_weights>>
    /\ UNCHANGED <<levVars, brandVars, webVars, anVars, diVars, concVars, parseVars>>

\* a caller invokes adjust_weights(w)
DoAdjustWeights(w) ==
    /\ pc = "idle"
    /\ risk_weights' = AdjustWeights(risk_weights, w)
    /\ old_weights' = risk_weights
    /\ new_weights' = w
    /\ pc' = "adjusted"
    /\ UNCHANGED <<features, risk_score, risk_factors>>
    /\ UNCHANGED <<levVars, brandVars, webVars, anVars, diVars, concVars, parseVars>>

\* the caller is done with the returned value
Resume ==
    /\ pc # "idle"
    /\ pc' = "idle"
    /\ features' = NoFeatures
    /\ risk_score' = 0
    /\ risk_factors' = <<>>
    /\ new_weights' = <<>>
    /\ old_weights' = risk_weights
    /\ UNCHANGED risk_weights
    /\ UNCHANGED <<levVars, brandVars, webVars, anVars, diVars, concVars, parseVars>>

LevIdle ==
    /\ lev_s1 = <<>>
    /\ lev_s2 = <<>>
    /\ lev_result = 0
    /\ lev_pc = "idle"

\* BrandMatcher.default_brands
default_brands ==
    << <<"g","o","o","g","l","e">>, <<"m","i","c","r","o","s","o","f","t">>,
       <<"a","p","p","l","e">>, <<"a","m","a","z","o","n">>,
       <<"f","a","c","e","b","o","o","k">>, <<"p","a","y","p","a","l">>,
       <<"n","e","t","f","l","i","x">>, <<"i","n","s","t","a","g","r","a","m">>,
       <<"t","w","i","t","t","e","r">>, <<"l","i","n","k","e","d","i","n">>,
       <<"d","r","o","p","b","o","x">>, <<"y","a","h","o","o">>,
       <<"c","h","a","s","e">>,
       <<"b","a","n","k","o","f","a","m","e","r","i","c","a">>,
       <<"w","e","l","l","s","f","a","r","g","o">>,
       <<"c","i","t","i","b","a","n","k">>, <<"h","s","b","c">>,
       <<"b","a","r","c","l","a","y","s">>,
       <<"a","m","e","r","i","c","a","n","e","x","p","r","e","s","s">>,
       <<"m","a","s","t","e","r","c","a","r","d">>, <<"v","i","s","a">>,
       <<"o","u","t","l","o","o","k">>, <<"g","m","a","i","l">>,
       <<"i","c","l","o","u","d">>, <<"o","f","f","i","c","e","3","6","5">>,
       <<"o","n","e","d","r","i","v","e">>, <<"d","r","o","p","b","o","x">>,
       <<"b","o","x">>, <<"a","d","o","b","e">>, <<"s","p","o","t","i","f","y">>,
       <<"s","t","e","a","m">>, <<"e","p","i","c","g","a","m","e","s">>,
       <<"b","l","i","z","z","a","r","d">>, <<"e","a">>,
       <<"u","b","i","s","o","f","t">>, <<"n","i","n","t","e","n","d","o">>,
       <<"p","l","a","y","s","t","a","t","i","o","n">>, <<"x","b","o","x">>,
       <<"t","w","i","t","c","h">>, <<"y","o","u","t","u","b","e">>,
       <<"w","a","l","m","a","r","t">>, <<"t","a","r","g","e","t">>,
       <<"e","b","a","y">>, <<"a","l","i","e","x","p","r","e","s","s">>,
       <<"f","e","d","e","x">>, <<"u","p","s">>, <<"d","h","l">>,
       <<"u","s","p","s">> >>

\* brand lists as json.load returns them from a brands file: lower-case
\* names, among them a two-letter and a four-letter one, and a capitalised name
file_brands_lower ==
    << <<"s","o","n","o","s">>, <<"o","n">>, <<"n","o","o","n">> >>

file_brands_mixed ==
    << <<"S","o","n","o","s">>, <<"o","n">>, <<"n","o","o","n">> >>

\* BrandMatcher._load_brands with a readable brands file
BrandLists == {file_brands_lower, file_brands_mixed}

BrandIdle ==
    /\ brands = default_brands
    /\ bm_extracted = [subdomain |-> <<>>, domain |-> <<>>]
    /\ bm_matches = <<>>
    /\ bm_pc = "idle"

WebIdle ==
    /\ web_pc = "idle"
    /\ web_urls = <<>>
    /\ web_verbose = FALSE
    /\ web_i = 1
    /\ results = <<>>
    /\ errors = <<>>
    /\ web_response = [status |-> 0]

\* the argument of PhishSniper(): no configuration
NoConfig == [has_brands_file |-> FALSE]

NoAnswer == [kind |-> "not_called"]

NoCall == [url |-> "", answer |-> NoAnswer, today |-> 0,
           risk_score |-> 0, risk_factors |-> <<>>]

ParseIdle ==
    /\ up_pc = "idle"
    /\ up_url = <<>>
    /\ up_result = <<>>

ConcIdle ==
    /\ calc_pc = "idle"
    /\ calc_todo = <<>>
    /\ calc_acc = [total_weight |-> 0, risk_factors |-> <<>>]
    /\ adj_pc = "idle"
    /\ adj_todo = <<>>

AnIdle ==
    /\ config = NoConfig
    /\ now = 0
    /\ an_pc = "idle"
    /\ an_url = [raw |-> "", is_str |-> TRUE]
    /\ an_verbose = FALSE
    /\ an_answer = NoAnswer
    /\ an_today = 0
    /\ an_domain_info = <<>>
    /\ an_result = <<>>
    /\ an_prev = NoCall

DiIdle ==
    /\ di_pc = "idle"
    /\ di_hostname = <<>>
    /\ di_answer = NoAnswer
    /\ di_lookups = <<>>
    /\ di_result = <<>>

Init == RiskInit /\ LevIdle /\ BrandIdle /\ WebIdle /\ AnIdle /\ DiIdle /\ ConcIdle /\ ParseIdle

Next ==
    \/ \E feats \in FeatureInputs : DoCalculateRisk(feats)
    \/ \E w \in OverrideInputs : DoAdjustWeights(w)
    \/ Resume

Spec == Init /\ [][Next]_vars

(***************************************************************************)
(* Properties of the risk engine                                           *)
(***************************************************************************)
RECURSIVE SumWeights(_)
SumWeights(factors) ==
    IF factors = <<>> THEN 0 ELSE Head(factors).weight + SumWeights(Tail(factors))

\* C1: every risk_score returned by calculate_risk lies in 0..100, whatever
\* integer weights adjust_weights has put into the table.
C1_ScoreInRange ==
    pc = "calculated" => (0 <= risk_score /\ risk_score <= 100)

\* C2: the returned risk_score is min(S, 100), S being the sum of the weight
\* fields of the returned risk_factors.
C2_ScoreIsCappedSum ==
    pc = "calculated" =>
        LET S == SumWeights(risk_factors)
        IN  /\ risk_score <= S
            /\ risk_score <= 100
            /\ (risk_score = S \/ risk_score = 100)

C2_Witness ==
    /\ pc = "calculated"
    /\ SumWeights(risk_factors) > 100
    /\ risk_score = 100
    /\ \E i \in 1..Len(risk_factors) : risk_factors[i].type = "typosquatting"

\* C3: risk_level is Low below 30, Medium from 30 up to but excluding 70 and
\* High from 70 on, for the score of every result.
C3_RiskLevelBands ==
    pc = "calculated" =>
        /\ (RiskLevel(risk_score) = "Low") <=> (risk_score <= 29)
        /\ (RiskLevel(risk_score) = "Medium") <=> (risk_score \in 30..69)
        /\ (RiskLevel(risk_score) = "High") <=> (risk_score >= 70)

C3_Witness ==
    /\ pc = "calculated"
    /\ risk_score = 70
    /\ RiskLevel(risk_score) = "High"

\* the factors in the order calculate_risk recorded them: URL traits, then
\* registration traits, then brand matches, each in input order
WeightedKinds(items) == SelectSeq(items, LAMBDA x : x.type \in DOMAIN risk_weights)

RecordedOrder ==
    (IF "suspicious_traits" \in DOMAIN features
     THEN WeightedKinds(features.suspicious_traits) ELSE <<>>)
    \o (IF "domain_info" \in DOMAIN features
        THEN WeightedKinds(features.domain_info.suspicious_traits) ELSE <<>>)
    \o (IF "brand_matches" \in DOMAIN features
        THEN WeightedKinds(features.brand_matches) ELSE <<>>)

Labels(items) ==
    [i \in 1..Len(items) |-> <<items[i].type, items[i].description>>]

\* positions of the recorded list whose factor got weight v
RecordedWithWeight(v) ==
    SelectSeq(RecordedOrder,
              LAMBDA x : \E i \in 1..Len(risk_factors) :
                            /\ risk_factors[i].weight = v
                            /\ risk_factors[i].type = x.type
                            /\ risk_factors[i].description = x.description)

\* C4: risk_factors is sorted by weight, largest first, and factors of equal
\* weight keep the order in which they were recorded.
C4_SortedStable ==
    pc = "calculated" =>
        /\ \A i \in 1..Len(risk_factors) - 1 :
              risk_factors[i].weight >= risk_factors[i + 1].weight
        /\ \A v \in {risk_factors[i].weight : i \in 1..Len(risk_factors)} :
              Labels(SelectSeq(risk_factors, LAMBDA f : f.weight = v))
                = Labels(RecordedWithWeight(v))

C4_Witness ==
    /\ pc = "calculated"
    /\ Len(risk_factors) >= 3
    /\ \E i \in 1..Len(risk_factors) - 1 :
          /\ risk_factors[i].weight = risk_factors[i + 1].weight
          /\ risk_factors[i].type # risk_factors[i + 1].type
    /\ \E i \in 1..Len(risk_factors) - 1 :
          risk_factors[i].weight > risk_factors[i + 1].weight
    /\ Labels(risk_factors) # Labels(RecordedOrder)

\* C7: applying the same override mapping a second time leaves the table as
\* it is after the first application.
C7_AdjustIdempotent ==
    pc = "adjusted" => AdjustWeights(risk_weights, new_weights) = risk_weights

C7_Witness ==
    /\ pc = "adjusted"
    /\ risk_weights # old_weights
    /\ Len(new_weights) = 2
    /\ AdjustWeights(risk_weights, new_weights) = risk_weights

RequestKeys == {new_weights[i][1] : i \in 1..Len(new_weights)}

\* C8: adjust_weights never changes the key set of the table; every requested
\* key that is in the table gets the requested value, also when the same
\* request names an unknown key, and no other entry changes.
C8_AdjustFrame ==
    /\ DOMAIN risk_weights = DOMAIN DefaultWeights
    /\ pc = "adjusted" =>
          /\ \A i \in 1..Len(new_weights) :
                new_weights[i][1] \in DOMAIN old_weights
                    => risk_weights[new_weights[i][1]] = new_weights[i][2]
          /\ \A k \in DOMAIN old_weights \ RequestKeys :
                k \in DOMAIN risk_weights /\ risk_weights[k] = old_weights[k]

C8_Witness ==
    /\ pc = "adjusted"
    /\ "unknown_factor" \in RequestKeys
    /\ "typosquatting" \in RequestKeys
    /\ risk_weights["typosquatting"] # old_weights["typosquatting"]
    /\ risk_weights["private_ip"] # DefaultWeights["private_ip"]

\* n / d rounded toward zero
TowardZero(n, d) == IF n < 0 THEN -((-n) \div d) ELSE n \div d

\* the weight the factor of a trait or match is to carry: the table weight,
\* scaled by similarity / 100 for a typosquatting match
ExactWeight(item) ==
    IF item.type = "typosquatting" /\ "similarity" \in DOMAIN item
    THEN TowardZero(risk_weights["typosquatting"] * item.similarity, 100)
    ELSE risk_weights[item.type]

\* the factors calculate_risk is to return, in recorded order
ExactFactors ==
    [i \in 1..Len(RecordedOrder) |->
        [type |-> RecordedOrder[i].type,
         weight |-> ExactWeight(RecordedOrder[i]),
         description |-> RecordedOrder[i].description]]

\* a sequence as the bag of its elements
BagOf(seq) ==
    [x \in {seq[i] : i \in 1..Len(seq)} |->
        Cardinality({i \in 1..Len(seq) : seq[i] = x})]

\* C21: the factor of a typosquatting match with similarity s carries the
\* weight w * s / 100 rounded toward zero, w being the table weight of
\* typosquatting; the factor of every other kind carries the table weight.
C21_TyposquattingScaledExactly ==
    pc = "calculated" => BagOf(risk_factors) = BagOf(ExactFactors)

\* the traits and matches handed to calculate_risk, in the order of its loops
Incoming ==
    (IF "suspicious_traits" \in DOMAIN features
     THEN features.suspicious_traits ELSE <<>>)
    \o (IF "domain_info" \in DOMAIN features
        THEN features.domain_info.suspicious_traits ELSE <<>>)
    \o (IF "brand_matches" \in DOMAIN features
        THEN features.brand_matches ELSE <<>>)

\* how many elements of seq have the kind and the description of item
CountLike(seq, item) ==
    Cardinality({ i \in 1..Len(seq) :
                    seq[i].type = item.type
                    /\ seq[i].description = item.description })

\* C22: calculate_risk returns one factor for every incoming trait or match
\* whose kind is a key of the weight table, duplicates included, each with
\* the description of its trait or match; a trait or match of another kind
\* gives no factor and adds nothing to the score, and the call returns.
C22_OneFactorPerWeightedKind ==
    pc = "calculated" =>
        /\ Len(risk_factors) =
              Cardinality({ i \in 1..Len(Incoming) :
                              Incoming[i].type \in DOMAIN risk_weights })
        /\ \A i \in 1..Len(Incoming) :
              IF Incoming[i].type \in DOMAIN risk_weights
              THEN CountLike(risk_factors, Incoming[i])
                     = CountLike(Incoming, Incoming[i])
              ELSE CountLike(risk_factors, Incoming[i]) = 0
        /\ \A i \in 1..Len(risk_factors) :
              risk_factors[i].type \in DOMAIN risk_weights
        /\ risk_score = CapScore(SumWeights(risk_factors))

\* a call with the same trait twice, an unweighted trait and an unweighted
\* match
C22_Witness ==
    /\ pc = "calculated"
    /\ Len(Incoming) = 3
    /\ \E i, j \in 1..Len(Incoming) :
          /\ i # j
          /\ Incoming[i] = Incoming[j]
          /\ Incoming[i].type \in DOMAIN risk_weights
    /\ \E i \in 1..Len(Incoming) : Incoming[i].type \notin DOMAIN risk_weights
    /\ Len(risk_factors) = 2

(***************************************************************************)
(* The edit distance on bounded strings                                    *)
(***************************************************************************)
LevAlphabet == {"a", "b", "c"}

LevStrings == SeqsUpTo(LevAlphabet, MaxStrLen)

\* a caller invokes _levenshtein_distance(a, b)
DoLevenshtein(a, b) ==
    /\ lev_pc = "idle"
    /\ lev_s1' = a
    /\ lev_s2' = b
    /\ lev_result' = LevenshteinDistance(a, b)
    /\ lev_pc' = "returned"
    /\ UNCHANGED <<riskVars, brandVars, webVars, anVars, diVars, concVars, parseVars>>

LevResume ==
    /\ lev_pc = "returned"
    /\ lev_s1' = <<>>
    /\ lev_s2' = <<>>
    /\ lev_result' = 0
    /\ lev_pc' = "idle"
    /\ UNCHANGED <<riskVars, brandVars, webVars, anVars, diVars, concVars, parseVars>>

LevInit == RiskInit /\ LevIdle /\ BrandIdle /\ WebIdle /\ AnIdle /\ DiIdle /\ ConcIdle /\ ParseIdle

LevNext ==
    \/ \E a, b \in LevStrings : DoLevenshtein(a, b)
    \/ LevResume

SpecLev == LevInit /\ [][LevNext]_vars

\* the textbook recursion: delete, insert or substitute one character, cost 1
RECURSIVE EditDistance(_, _)
EditDistance(a, b) ==
    IF a = <<>> THEN Len(b)
    ELSE IF b = <<>> THEN Len(a)
    ELSE IF Head(a) = Head(b) THEN EditDistance(Tail(a), Tail(b))
    ELSE 1 + Min3(EditDistance(Tail(a), b),
                  EditDistance(a, Tail(b)),
                  EditDistance(Tail(a), Tail(b)))

\* C5: _levenshtein_distance gives the same value with its arguments swapped,
\* and that value is the unit-cost insert/delete/substitute edit distance.
C5_LevSymmetricClassic ==
    lev_pc = "returned" =>
        /\ lev_result = LevenshteinDistance(lev_s2, lev_s1)
        /\ lev_result = EditDistance(lev_s1, lev_s2)

C5_Witness ==
    /\ lev_pc = "returned"
    /\ Len(lev_s1) = Len(lev_s2)
    /\ Len(lev_s1) = 3
    /\ lev_s1 # lev_s2
    /\ lev_result = 2
    /\ LevenshteinDistance(lev_s2, lev_s1) = 2

(***************************************************************************)
(* The brand matcher on bounded host names                                 *)
(***************************************************************************)
LabelAlphabet == {"s", "o", "n", "0"}

DomainLabels == SeqsUpTo(LabelAlphabet, MaxLabelLen)

SubdomainLabels == { <<>>, <<"s", "o", "n", "o", "s">> }

BrandInit ==
    /\ RiskInit
    /\ LevIdle
    /\ WebIdle
    /\ AnIdle
    /\ DiIdle
    /\ ConcIdle
    /\ ParseIdle
    /\ brands \in BrandLists
    /\ bm_extracted = [subdomain |-> <<>>, domain |-> <<>>]
    /\ bm_matches = <<>>
    /\ bm_pc = "idle"

\* a caller invokes find_matches on a host name that tldextract splits into
\* subdomain sub and registrable-domain label dom
DoFindMatches(sub, dom) ==
    /\ bm_pc = "idle"
    /\ bm_extracted' = [subdomain |-> sub, domain |-> dom]
    /\ bm_matches' = FindMatches(brands, [subdomain |-> sub, domain |-> dom])
    /\ bm_pc' = "returned"
    /\ UNCHANGED <<brands, riskVars, levVars, webVars, anVars, diVars, concVars, parseVars>>

BrandResume ==
    /\ bm_pc = "returned"
    /\ bm_extracted' = [subdomain |-> <<>>, domain |-> <<>>]
    /\ bm_matches' = <<>>
    /\ bm_pc' = "idle"
    /\ UNCHANGED <<brands, riskVars, levVars, webVars, anVars, diVars, concVars, parseVars>>

BrandNext ==
    \/ \E sub \in SubdomainLabels, dom \in DomainLabels : DoFindMatches(sub, dom)
    \/ BrandResume

SpecBrand == BrandInit /\ [][BrandNext]_vars

SelfMatchKinds == {"brand_in_domain", "typosquatting", "homoglyph_attack"}

BrandSet == {brands[i] : i \in 1..Len(brands)}

\* C6: when the registrable-domain label equals a brand of the list, case
\* ignored, find_matches returns no brand_in_domain, typosquatting or
\* homoglyph_attack match for that brand.
C6_SelfMatchExclusion ==
    bm_pc = "returned" =>
        \A B \in BrandSet :
            Lower(bm_extracted.domain) = Lower(B) =>
                \A i \in 1..Len(bm_matches) :
                    ~(bm_matches[i].brand = B /\ bm_matches[i].type \in SelfMatchKinds)

C6_Witness ==
    /\ bm_pc = "returned"
    /\ \E B \in BrandSet : Len(B) > 4 /\ Lower(bm_extracted.domain) = Lower(B)
                                      /\ bm_extracted.domain # B
    /\ bm_matches # <<>>

\* the typosquatting matches find_matches returned for brand B
TyposquattingMatches(B) ==
    { i \in 1..Len(bm_matches) :
        bm_matches[i].type = "typosquatting" /\ bm_matches[i].brand = B }

\* C18: find_matches returns a typosquatting match for brand B and domain
\* label D exactly when len(B) >= 4, D differs from B with case ignored, and
\* similarity >= 85 or (edit distance <= 2 and len(B) > 4); the match
\* carries the similarity, an integer in 0..100, and the edit distance.
C18_TyposquattingRule ==
    bm_pc = "returned" =>
        \A B \in BrandSet :
            LET D          == bm_extracted.domain
                similarity == Ratio(Lower(D), Lower(B))
                distance   == LevenshteinDistance(Lower(D), Lower(B))
            IN  /\ TyposquattingMatches(B) # {} <=>
                      /\ Len(B) >= 4
                      /\ Lower(D) # Lower(B)
                      /\ \/ similarity >= 85
                         \/ distance <= 2 /\ Len(B) > 4
                /\ \A i \in TyposquattingMatches(B) :
                      /\ {"similarity", "levenshtein"} \subseteq DOMAIN bm_matches[i]
                      /\ bm_matches[i].similarity = similarity
                      /\ bm_matches[i].similarity \in 0..100
                      /\ bm_matches[i].levenshtein = distance
                      /\ bm_matches[i].levenshtein = EditDistance(Lower(D), Lower(B))

\* a match decided on the edit distance alone
C18_Witness ==
    /\ bm_pc = "returned"
    /\ \E B \in BrandSet :
          \E i \in TyposquattingMatches(B) :
              bm_matches[i].similarity < 85 /\ bm_matches[i].levenshtein = 2

(***************************************************************************)
(* web.py : batch_analyze                                                  *)
(***************************************************************************)
\* most URLs in one batch request
MaxBatch == 2

\* URLs a request can carry
url_paypa1 ==
    [raw |-> "paypa1.com/login", is_str |-> TRUE, normalized |-> "http://paypa1.com/login", scheme |-> "http",
     netloc |-> <<"p", "a", "y", "p", "a", "1", ".", "c", "o", "m">>,
     path |-> <<"/", "l", "o", "g", "i", "n">>,
     query |-> "", fragment |-> "",
     extracted |-> [subdomain |-> <<>>,
                    domain |-> <<"p", "a", "y", "p", "a", "1">>,
                    suffix |-> <<"c", "o", "m">>],
     geturl_len |-> 23]

url_private_ip ==
    [raw |-> "http://192.168.1.1/login", is_str |-> TRUE, normalized |-> "http://192.168.1.1/login", scheme |-> "http",
     netloc |-> <<"1", "9", "2", ".", "1", "6", "8", ".", "1", ".", "1">>,
     path |-> <<"/", "l", "o", "g", "i", "n">>,
     query |-> "", fragment |-> "",
     extracted |-> [subdomain |-> <<>>,
                    domain |-> <<"1", "9", "2", ".", "1", "6", "8", ".", "1", ".", "1">>,
                    suffix |-> <<>>],
     geturl_len |-> 24]

url_hex ==
    [raw |-> "http://g00gle.tk/%6Cogin", is_str |-> TRUE, normalized |-> "http://g00gle.tk/%6Cogin", scheme |-> "http",
     netloc |-> <<"g", "0", "0", "g", "l", "e", ".", "t", "k">>,
     path |-> <<"/", "%", "6", "C", "o", "g", "i", "n">>,
     query |-> "", fragment |-> "",
     extracted |-> [subdomain |-> <<>>,
                    domain |-> <<"g", "0", "0", "g", "l", "e">>,
                    suffix |-> <<"t", "k">>],
     geturl_len |-> 24]

\* the JSON number 42 in the place of a URL
url_not_a_string ==
    [raw |-> "42", is_str |-> FALSE]

UrlPool == {url_paypa1, url_private_ip, url_hex, url_not_a_string}

\* what whois.whois can answer
WhoisAnswers ==
    { [kind |-> "raises"],
      [kind |-> "no_record"],
      [kind |-> "record", has_creation |-> TRUE, creation_date |-> -5,
       has_expiration |-> TRUE, expiration_date |-> 359,
       registrar |-> <<"N","a","m","e","C","h","e","a","p">>] }

\* TRUE iff analyze(url) reaches the whois.whois call
CallsWhois(url) ==
    /\ ~UrlParse(url).raised
    /\ WhoisLookups(url.netloc, url.extracted) # <<>>

\* the answers the analysis of url can meet; no answer is needed when
\* whois.whois is not called
AnswersFor(url) ==
    IF CallsWhois(url) THEN WhoisAnswers ELSE {NoAnswer}

\* request.json of a POST /api/batch
BatchRequests ==
    { [kind |-> "no_body"], [kind |-> "no_urls_key"], [kind |-> "urls_not_a_list"] }
    \cup { [kind |-> "urls", urls |-> us, verbose |-> v] :
               us \in SeqsUpTo(UrlPool, MaxBatch), v \in BOOLEAN }

\* variant: the result of a later URL is put in front
AppendResult_Prepend(res, d) == <<d>> \o res

\* results.append(result.to_dict())
AppendResult(res, d) == Append(res, d)

\* variant: a failed URL leaves no entry
AppendError_Drop(errs, url, e) == errs

\* errors.append({"url": url, "error": str(e)})
AppendError(errs, url, e) == Append(errs, [url |-> url.raw, error |-> e])

\* the handler is entered with the request body data
BatchBegin(data) ==
    /\ web_pc = "idle"
    /\ IF data.kind # "urls"
       THEN /\ web_response' = [status |-> 400,
                                error |-> "List of URLs is required"]
            /\ web_pc' = "responded"
            /\ UNCHANGED <<web_urls, web_verbose, web_i, results, errors>>
       ELSE /\ web_urls' = data.urls
            /\ web_verbose' = data.verbose
            /\ results' = <<>>
            /\ errors' = <<>>
            /\ web_i' = 1
            /\ web_pc' = "loop"
            /\ UNCHANGED web_response
    /\ UNCHANGED <<riskVars, levVars, brandVars, anVars, diVars, concVars, parseVars>>

\* one iteration of the loop over urls, in which whois.whois, if it is
\* called, answers with answer
BatchIterate(answer) ==
    /\ web_pc = "loop"
    /\ web_i <= Len(web_urls)
    /\ answer \in AnswersFor(web_urls[web_i])
    /\ LET url == web_urls[web_i]
           r   == Analyze(url, web_verbose, answer, now, risk_weights, brands)
       IN  IF r.raised
           THEN /\ errors' = AppendError(errors, url, r.error)
                /\ UNCHANGED results
           ELSE /\ results' = AppendResult(results, ToDict(r.value))
                /\ UNCHANGED errors
    /\ web_i' = web_i + 1
    /\ UNCHANGED <<web_pc, web_urls, web_verbose, web_response>>
    /\ UNCHANGED <<riskVars, levVars, brandVars, anVars, diVars, concVars, parseVars>>

\* the loop is over: return jsonify({"results": results, "errors": errors})
BatchReturn ==
    /\ web_pc = "loop"
    /\ web_i > Len(web_urls)
    /\ web_response' = [status |-> 200, results |-> results, errors |-> errors]
    /\ web_pc' = "responded"
    /\ UNCHANGED <<web_urls, web_verbose, web_i, results, errors>>
    /\ UNCHANGED <<riskVars, levVars, brandVars, anVars, diVars, concVars, parseVars>>

\* the next request arrives
WebResume ==
    /\ web_pc = "responded"
    /\ web_pc' = "idle"
    /\ web_urls' = <<>>
    /\ web_verbose' = FALSE
    /\ web_i' = 1
    /\ results' = <<>>
    /\ errors' = <<>>
    /\ web_response' = [status |-> 0]
    /\ UNCHANGED <<riskVars, levVars, brandVars, anVars, diVars, concVars, parseVars>>

\* web.py builds PhishSniper() once: default weights, default brand list
BatchInit == RiskInit /\ LevIdle /\ BrandIdle /\ WebIdle /\ AnIdle /\ DiIdle /\ ConcIdle /\ ParseIdle

BatchNext ==
    \/ \E data \in BatchRequests : BatchBegin(data)
    \/ \E answer \in WhoisAnswers \cup {NoAnswer} : BatchIterate(answer)
    \/ BatchReturn
    \/ WebResume

SpecBatch == BatchInit /\ [][BatchNext]_vars

Urls(entries) == [i \in 1..Len(entries) |-> entries[i].url]

\* C9: in batch_analyze every input URL yields exactly one outcome, an entry
\* of results or an entry of errors: after k iterations the two lists hold k
\* entries together, whatever failed before, and the response for N URLs
\* holds N entries, len(results) + len(errors) == N.
C9_OneOutcomePerUrl ==
    /\ web_pc = "loop" => Len(results) + Len(errors) = web_i - 1
    /\ (web_pc = "responded" /\ web_response.status # 400)
          => /\ web_response.status = 200
             /\ Len(web_response.results) + Len(web_response.errors) = Len(web_urls)

C9_Witness ==
    /\ web_pc = "responded"
    /\ web_response.status = 200
    /\ Len(web_urls) = 2
    /\ Len(web_response.errors) = 1
    /\ Len(web_response.results) = 1
    /\ web_response.errors[1].url = web_urls[1].raw

\* TRUE iff whole is an interleaving of left and right
RECURSIVE IsInterleaving(_, _, _)
IsInterleaving(whole, left, right) ==
    IF whole = <<>> THEN left = <<>> /\ right = <<>>
    ELSE \/ /\ left # <<>>
            /\ Head(left) = Head(whole)
            /\ IsInterleaving(Tail(whole), Tail(left), right)
         \/ /\ right # <<>>
            /\ Head(right) = Head(whole)
            /\ IsInterleaving(Tail(whole), left, Tail(right))

InputUrls == [i \in 1..Len(web_urls) |-> web_urls[i].raw]

\* C10: every entry of results and of errors in the batch response carries a
\* url, and the urls of results and the urls of errors are each in the
\* order of the input: the input is an interleaving of the two.
C10_InputOrderPreserved ==
    (web_pc = "responded" /\ web_response.status = 200) =>
        /\ \A i \in 1..Len(web_response.results) :
               "url" \in DOMAIN web_response.results[i]
        /\ \A i \in 1..Len(web_response.errors) :
               "url" \in DOMAIN web_response.errors[i]
        /\ IsInterleaving(InputUrls, Urls(web_response.results),
                          Urls(web_response.errors))

C10_Witness ==
    /\ web_pc = "responded"
    /\ web_response.status = 200
    /\ Len(web_response.results) = 2
    /\ web_response.results[1].url # web_response.results[2].url
    /\ web_response.results[1].url = web_urls[1].raw

(***************************************************************************)
(* DomainIntelligence.analyze as a state machine                           *)
(***************************************************************************)
\* answers of whois.whois beyond those of WhoisAnswers: a creation date the
\* library returns as a string, and a record created 29 days before day 0
\* with a registrar outside the list
MoreWhoisAnswers ==
    { [kind |-> "record_str_date", registrar |-> <<>>],
      [kind |-> "record", has_creation |-> TRUE, creation_date |-> -29,
       has_expiration |-> TRUE, expiration_date |-> 3000,
       registrar |-> <<"M","a","r","k","M","o","n","i","t","o","r">>] }

AllWhoisAnswers == WhoisAnswers \cup MoreWhoisAnswers

\* decimal octets the IPv4 literals are built from
OctetPool == { <<"0">>, <<"1","0">>, <<"2","5","5">> }

DottedQuad(a, b, c, d) == a \o <<".">> \o b \o <<".">> \o c \o <<".">> \o d

PortSuffixes == { <<>>, <<":","8","0","8","0">> }

\* tldextract.extract of an IP literal: the literal is the domain
IpHosts ==
    { [hostname |-> DottedQuad(a, b, c, d) \o port,
       extracted |-> [subdomain |-> <<>>, domain |-> DottedQuad(a, b, c, d),
                      suffix |-> <<>>]] :
         a \in OctetPool, b \in OctetPool, c \in OctetPool, d \in OctetPool,
         port \in PortSuffixes }

\* host names that are no IPv4 literal: a registered name, a dotted quad with
\* an octet above 255, and the three-part form inet_aton reads as an address
NamedHosts ==
    { [hostname |-> <<"p","a","y","p","a","1",".","c","o","m">> \o port,
       extracted |-> [subdomain |-> <<>>, domain |-> <<"p","a","y","p","a","1">>,
                      suffix |-> <<"c","o","m">>]] : port \in PortSuffixes }
    \cup
    { [hostname |-> <<"2","5","6",".","1",".","1",".","1">>,
       extracted |-> [subdomain |-> <<"2","5","6",".","1",".","1">>,
                      domain |-> <<"1">>, suffix |-> <<>>]],
      [hostname |-> <<"1",".","2",".","3">>,
       extracted |-> [subdomain |-> <<"1",".","2">>,
                      domain |-> <<"3">>, suffix |-> <<>>]] }

HostInputs == IpHosts \cup NamedHosts

\* a caller invokes DomainIntelligence.analyze(h.hostname); whois.whois, if
\* it is called, answers with answer
DoDomainAnalyze(h, answer) ==
    /\ di_pc = "idle"
    /\ answer \in (IF WhoisLookups(h.hostname, h.extracted) = <<>>
                   THEN {NoAnswer} ELSE AllWhoisAnswers)
    /\ di_hostname' = h.hostname
    /\ di_answer' = answer
    /\ di_lookups' = WhoisLookups(h.hostname, h.extracted)
    /\ di_result' = DomainAnalyze(h.hostname, h.extracted, answer, now)
    /\ di_pc' = "returned"
    /\ UNCHANGED <<riskVars, levVars, brandVars, webVars, anVars, concVars, parseVars>>

DiResume ==
    /\ di_pc = "returned"
    /\ di_pc' = "idle"
    /\ di_hostname' = <<>>
    /\ di_answer' = NoAnswer
    /\ di_lookups' = <<>>
    /\ di_result' = <<>>
    /\ UNCHANGED <<riskVars, levVars, brandVars, webVars, anVars, concVars, parseVars>>

DomainInit ==
    RiskInit /\ LevIdle /\ BrandIdle /\ WebIdle /\ AnIdle /\ DiIdle /\ ConcIdle
    /\ ParseIdle

DomainNext ==
    \/ \E h \in HostInputs, answer \in AllWhoisAnswers \cup {NoAnswer} :
          DoDomainAnalyze(h, answer)
    \/ DiResume

SpecDomain == DomainInit /\ [][DomainNext]_vars

\* the host part of the argument, before the first colon
HostPart == BeforeFirst(di_hostname, ":")

TraitTypes(traits) == [i \in 1..Len(traits) |-> traits[i].type]

\* C11: for a hostname that is an IPv4 literal, with or without a port,
\* DomainIntelligence.analyze makes no whois.whois call and returns a record
\* with domain_exists false whose suspicious_traits is exactly one trait of
\* type ip_address_no_whois.
C11_IpLiteralNoWhois ==
    (di_pc = "returned" /\ IsIPv4Address(HostPart)) =>
        /\ di_lookups = <<>>
        /\ di_result.domain_exists = FALSE
        /\ TraitTypes(di_result.suspicious_traits) = <<"ip_address_no_whois">>

C11_Witness ==
    /\ di_pc = "returned"
    /\ IsIPv4Address(HostPart)
    /\ HostPart # di_hostname
    /\ di_lookups = <<>>

(***************************************************************************)
(* PhishSniper: construction and analyze as a state machine                *)
(***************************************************************************)
\* latest day the clock reaches
MaxDays == 1

\* BrandMatcher() is called without a brands file
NoBrandsFile == [given |-> FALSE]

\* BrandMatcher._load_brands: the content of an existing, readable JSON file,
\* else the default list
LoadBrands(brands_file) ==
    IF brands_file.given /\ brands_file.readable
    THEN brands_file.content
    ELSE default_brands

\* variant: the brands file named in the configuration reaches BrandMatcher
PhishSniperBrands_FromConfig(cfg) ==
    LoadBrands(IF cfg.has_brands_file THEN cfg.brands_file ELSE NoBrandsFile)

\* PhishSniper.__init__: self.brand_matcher = BrandMatcher(), whatever the
\* configuration holds
PhishSniperBrands(cfg) == LoadBrands(NoBrandsFile)

\* the configuration cli.main builds from --brands-file
BrandsFileConfig ==
    [has_brands_file |-> TRUE,
     brands_file |-> [given |-> TRUE, readable |-> TRUE,
                      content |-> file_brands_lower]]

Configs == {NoConfig, BrandsFileConfig}

\* a dotted quad with an octet above 255
url_bad_octet ==
    [raw |-> "http://256.1.1.1/login", is_str |-> TRUE,
     normalized |-> "http://256.1.1.1/login", scheme |-> "http",
     netloc |-> <<"2", "5", "6", ".", "1", ".", "1", ".", "1">>,
     path |-> <<"/", "l", "o", "g", "i", "n">>,
     query |-> "", fragment |-> "",
     extracted |-> [subdomain |-> <<"2", "5", "6", ".", "1", ".", "1">>,
                    domain |-> <<"1">>, suffix |-> <<>>],
     geturl_len |-> 22]

\* the three-part form of an IPv4 address
url_short_ip ==
    [raw |-> "http://1.2.3/login", is_str |-> TRUE,
     normalized |-> "http://1.2.3/login", scheme |-> "http",
     netloc |-> <<"1", ".", "2", ".", "3">>,
     path |-> <<"/", "l", "o", "g", "i", "n">>,
     query |-> "", fragment |-> "",
     extracted |-> [subdomain |-> <<"1", ".", "2">>,
                    domain |-> <<"3">>, suffix |-> <<>>],
     geturl_len |-> 18]

\* URLs whose host is, or looks like, an IPv4 literal
IpUrlPool == {url_private_ip, url_bad_octet, url_short_ip}

AnalyzeInit ==
    /\ RiskInit /\ LevIdle /\ WebIdle /\ DiIdle /\ ConcIdle /\ ParseIdle
    /\ config \in Configs
    /\ brands = PhishSniperBrands(config)
    /\ bm_extracted = [subdomain |-> <<>>, domain |-> <<>>]
    /\ bm_matches = <<>>
    /\ bm_pc = "idle"
    /\ now = 0
    /\ an_pc = "idle"
    /\ an_url = [raw |-> "", is_str |-> TRUE]
    /\ an_verbose = FALSE
    /\ an_answer = NoAnswer
    /\ an_today = 0
    /\ an_domain_info = <<>>
    /\ an_result = <<>>
    /\ an_prev = NoCall

\* analyze(url, verbose) is entered: url_parser.parse, then
\* domain_intelligence.analyze up to the whois.whois call
AnalyzeCall(url, verbose) ==
    /\ an_pc = "idle"
    /\ an_url' = url
    /\ an_verbose' = verbose
    /\ an_answer' = NoAnswer
    /\ LET parsed == UrlParse(url)
       IN  IF parsed.raised
           THEN /\ an_pc' = "raised"
                /\ an_result' = parsed
                /\ UNCHANGED <<an_today, an_domain_info>>
           ELSE IF WhoisLookups(url.netloc, url.extracted) = <<>>
           THEN /\ an_pc' = "scoring"
                /\ an_today' = now
                /\ an_domain_info' =
                       DomainAnalyze(url.netloc, url.extracted, NoAnswer, now)
                /\ UNCHANGED an_result
           ELSE /\ an_pc' = "lookup"
                /\ UNCHANGED <<an_today, an_domain_info, an_result>>
    /\ UNCHANGED <<config, now, an_prev>>
    /\ UNCHANGED <<riskVars, levVars, brandVars, webVars, diVars, concVars, parseVars>>

\* whois.whois answers, and domain_intelligence.analyze runs to its return
WhoisAnswer(answer) ==
    /\ an_pc = "lookup"
    /\ an_answer' = answer
    /\ an_today' = now
    /\ an_domain_info' = DomainAnalyze(an_url.netloc, an_url.extracted, answer, now)
    /\ an_pc' = "scoring"
    /\ UNCHANGED <<config, now, an_url, an_verbose, an_result, an_prev>>
    /\ UNCHANGED <<riskVars, levVars, brandVars, webVars, diVars, concVars, parseVars>>

\* variant: an analysis that lowers the weight of what it has just reported
AnalyzeFinish_Learning ==
    /\ an_pc = "scoring"
    /\ an_result' = Analyze(an_url, an_verbose, an_answer, an_today,
                            risk_weights, brands)
    /\ an_pc' = "returned"
    /\ risk_weights' = [k \in DOMAIN risk_weights |->
                           IF k = "whois_lookup_failed" THEN 0
                           ELSE risk_weights[k]]
    /\ UNCHANGED <<pc, features, risk_score, risk_factors, new_weights,
                   old_weights>>
    /\ UNCHANGED <<config, now, an_url, an_verbose, an_answer, an_today,
                   an_domain_info, an_prev>>
    /\ UNCHANGED <<levVars, brandVars, webVars, diVars, concVars, parseVars>>

\* find_matches, calculate_risk and the construction of the AnalysisResult
AnalyzeFinish ==
    /\ an_pc = "scoring"
    /\ an_result' = Analyze(an_url, an_verbose, an_answer, an_today,
                            risk_weights, brands)
    /\ an_pc' = "returned"
    /\ UNCHANGED <<config, now, an_url, an_verbose, an_answer, an_today,
                   an_domain_info, an_prev>>
    /\ UNCHANGED <<riskVars, levVars, brandVars, webVars, diVars, concVars, parseVars>>

\* the caller takes the outcome; remember tells whether this call becomes
\* the earlier call later ones are compared with
AnalyzeResume(remember) ==
    /\ an_pc \in {"returned", "raised"}
    /\ an_prev' = IF remember /\ an_pc = "returned"
                  THEN [url |-> an_url.raw, answer |-> an_answer,
                        today |-> an_today,
                        risk_score |-> an_result.value.risk_score,
                        risk_factors |-> an_result.value.risk_factors]
                  ELSE an_prev
    /\ an_pc' = "idle"
    /\ an_url' = [raw |-> "", is_str |-> TRUE]
    /\ an_verbose' = FALSE
    /\ an_answer' = NoAnswer
    /\ an_today' = 0
    /\ an_domain_info' = <<>>
    /\ an_result' = <<>>
    /\ UNCHANGED <<config, now>>
    /\ UNCHANGED <<riskVars, levVars, brandVars, webVars, diVars, concVars, parseVars>>

\* a day passes
Tick ==
    /\ now < MaxDays
    /\ now' = now + 1
    /\ UNCHANGED <<config, an_pc, an_url, an_verbose, an_answer, an_today,
                   an_domain_info, an_result, an_prev>>
    /\ UNCHANGED <<riskVars, levVars, brandVars, webVars, diVars, concVars, parseVars>>

AnalyzeNext ==
    \/ \E url \in UrlPool, verbose \in BOOLEAN : AnalyzeCall(url, verbose)
    \/ \E answer \in AllWhoisAnswers : WhoisAnswer(answer)
    \/ AnalyzeFinish
    \/ \E remember \in BOOLEAN : AnalyzeResume(remember)
    \/ Tick

SpecAnalyze == AnalyzeInit /\ [][AnalyzeNext]_vars

\* the same calls on the URLs of IpUrlPool
IpAnalyzeNext ==
    \/ \E url \in IpUrlPool, verbose \in BOOLEAN : AnalyzeCall(url, verbose)
    \/ \E answer \in AllWhoisAnswers : WhoisAnswer(answer)
    \/ AnalyzeFinish
    \/ \E remember \in BOOLEAN : AnalyzeResume(remember)
    \/ Tick

SpecAnalyzeIp == AnalyzeInit /\ [][IpAnalyzeNext]_vars

\* the steps a running analyze call takes by itself, without an answer
\* of whois.whois
ProgramStep ==
    \/ AnalyzeFinish
    \/ \E remember \in BOOLEAN : AnalyzeResume(remember)

\* TRUE iff whois.whois, or the processing of its answer, raises
LookupRaises(answer) == answer.kind \in {"raises", "record_str_date"}

FactorTypes(factors) == {factors[i].type : i \in 1..Len(factors)}

\* C12: when the whois.whois call or the processing of its answer raises,
\* DomainIntelligence.analyze returns a record with a whois_lookup_failed
\* trait, and PhishSniper.analyze returns an AnalysisResult whose
\* risk_factors include a whois_lookup_failed factor; it does not raise.
C12_LookupFailureNotFatal ==
    LookupRaises(an_answer) =>
        /\ an_pc # "raised"
        /\ an_pc \in {"scoring", "returned"} =>
              "whois_lookup_failed" \in
                  {an_domain_info.suspicious_traits[i].type :
                       i \in 1..Len(an_domain_info.suspicious_traits)}
        /\ an_pc = "returned" =>
              /\ an_result.raised = FALSE
              /\ "whois_lookup_failed" \in FactorTypes(an_result.value.risk_factors)

C12_Witness ==
    /\ an_pc = "returned"
    /\ an_answer.kind = "record_str_date"
    /\ "whois_lookup_failed" \in FactorTypes(an_result.value.risk_factors)

\* C13: an analyze call returns even when whois.whois never answers: the
\* lookup is bounded by a timeout, so a call that waits in the lookup can go
\* on by a step of its own, without an answer.
C13_LookupBounded == (an_pc = "lookup") => ENABLED ProgramStep

\* the keys spec'd for the features of a verbose result
VerboseKeys == {"scheme", "hostname", "domain", "domain_info", "brand_matches"}

\* C14: a result returned with verbose = False has no features, and its
\* to_dict has no features key; with verbose = True features holds the parsed
\* URL fields scheme, hostname and domain, the registration record as
\* domain_info and the brand matches as brand_matches; url, risk_score and
\* risk_factors are the same in both modes.
C14_VerboseOnlyAddsFeatures ==
    (an_pc = "returned") =>
        LET result == an_result.value
            d      == ToDict(result)
            other  == Analyze(an_url, ~an_verbose, an_answer, an_today,
                              risk_weights, brands)
        IN  /\ ~an_result.raised
            /\ ~an_verbose =>
                  /\ result.features = <<>>
                  /\ "features" \notin DOMAIN d
            /\ an_verbose =>
                  /\ "features" \in DOMAIN d
                  /\ VerboseKeys \subseteq DOMAIN d.features
                  /\ d.features.scheme = UrlParse(an_url).value.scheme
                  /\ d.features.hostname = UrlParse(an_url).value.hostname
                  /\ d.features.domain = UrlParse(an_url).value.domain
                  /\ d.features.domain_info = an_domain_info
                  /\ d.features.brand_matches =
                         FindMatches(brands, an_url.extracted)
            /\ ~other.raised
            /\ other.value.url = result.url
            /\ other.value.risk_score = result.risk_score
            /\ other.value.risk_factors = result.risk_factors

C14_Witness ==
    /\ an_pc = "returned"
    /\ an_verbose
    /\ an_result.value.features # <<>>
    /\ an_result.value.features.brand_matches # <<>>
    /\ an_prev.url # ""
    /\ an_prev.risk_score = an_result.value.risk_score

\* C15: a pipeline constructed with a brand list in its configuration
\* matches hostnames against exactly that list; the default list is used
\* only when none is configured.
C15_ConfiguredBrandsUsed ==
    (an_pc = "returned" /\ an_verbose) =>
        an_result.value.features.brand_matches =
            FindMatches(PhishSniperBrands_FromConfig(config), an_url.extracted)

\* TRUE iff the call that has returned has the URL and the lookup answer of
\* the remembered earlier call
SameCallAsBefore ==
    /\ an_pc = "returned"
    /\ an_prev.url = an_url.raw
    /\ an_prev.answer = an_answer

\* TRUE iff the call that has returned has the outcome of the remembered one
SameOutcomeAsBefore ==
    /\ an_result.value.risk_score = an_prev.risk_score
    /\ an_result.value.risk_factors = an_prev.risk_factors

\* the brand list and the weight table are those the instance was built with
ConfigurationUntouched ==
    /\ brands = PhishSniperBrands(config)
    /\ risk_weights = DefaultWeights

ConcFeatures ==
    { [suspicious_traits |-> <<u>>,
       domain_info |-> [suspicious_traits |-> <<>>],
       brand_matches |-> m] :
          u \in UrlTraitPool,
          m \in {<<>>} \cup { <<x>> : x \in MatchPool } }

\* the iterations of the three loops of calculate_risk, in program order
LoopItems(feats) ==
    [i \in 1..Len(feats.suspicious_traits) |->
        [loop |-> "traits", item |-> feats.suspicious_traits[i]]]
    \o [i \in 1..Len(feats.domain_info.suspicious_traits) |->
        [loop |-> "traits", item |-> feats.domain_info.suspicious_traits[i]]]
    \o [i \in 1..Len(feats.brand_matches) |->
        [loop |-> "matches", item |-> feats.brand_matches[i]]]

\* calculate_risk(feats) is entered: risk_factors = [], total_weight = 0
CalcBegin(feats) ==
    /\ calc_pc = "idle"
    /\ calc_pc' = "running"
    /\ features' = feats
    /\ calc_todo' = LoopItems(feats)
    /\ calc_acc' = [total_weight |-> 0, risk_factors |-> <<>>]
    /\ UNCHANGED <<risk_weights, pc, risk_score, risk_factors, new_weights,
                   old_weights, adj_pc, adj_todo>>
    /\ UNCHANGED <<levVars, brandVars, webVars, anVars, diVars, parseVars>>

\* one iteration of a loop of calculate_risk, reading self.risk_weights
CalcStep ==
    /\ calc_pc = "running"
    /\ calc_todo # <<>>
    /\ calc_acc' = IF Head(calc_todo).loop = "traits"
                   THEN ProcessTraits(calc_acc, risk_weights,
                                      <<Head(calc_todo).item>>)
                   ELSE ProcessMatches(calc_acc, risk_weights,
                                       <<Head(calc_todo).item>>)
    /\ calc_todo' = Tail(calc_todo)
    /\ UNCHANGED <<risk_weights, pc, features, risk_score, risk_factors,
                   new_weights, old_weights, calc_pc, adj_pc, adj_todo>>
    /\ UNCHANGED <<levVars, brandVars, webVars, anVars, diVars, parseVars>>

\* the cap, the sort and the return of calculate_risk
CalcReturn ==
    /\ calc_pc = "running"
    /\ calc_todo = <<>>
    /\ risk_score' = CapScore(calc_acc.total_weight)
    /\ risk_factors' = SortByWeightDesc(calc_acc.risk_factors)
    /\ calc_pc' = "done"
    /\ UNCHANGED <<risk_weights, pc, features, new_weights, old_weights,
                   calc_todo, calc_acc, adj_pc, adj_todo>>
    /\ UNCHANGED <<levVars, brandVars, webVars, anVars, diVars, parseVars>>

\* adjust_weights(w) is entered
AdjBegin(w) ==
    /\ adj_pc = "idle"
    /\ adj_pc' = "running"
    /\ new_weights' = w
    /\ old_weights' = risk_weights
    /\ adj_todo' = w
    /\ UNCHANGED <<risk_weights, pc, features, risk_score, risk_factors,
                   calc_pc, calc_todo, calc_acc>>
    /\ UNCHANGED <<levVars, brandVars, webVars, anVars, diVars, parseVars>>

\* one iteration of the loop of adjust_weights, writing self.risk_weights
AdjStep ==
    /\ adj_pc = "running"
    /\ adj_todo # <<>>
    /\ risk_weights' = AdjustWeights(risk_weights, <<Head(adj_todo)>>)
    /\ adj_todo' = Tail(adj_todo)
    /\ UNCHANGED <<pc, features, risk_score, risk_factors, new_weights,
                   old_weights, calc_pc, calc_todo, calc_acc, adj_pc>>
    /\ UNCHANGED <<levVars, brandVars, webVars, anVars, diVars, parseVars>>

\* adjust_weights returns
AdjReturn ==
    /\ adj_pc = "running"
    /\ adj_todo = <<>>
    /\ adj_pc' = "done"
    /\ UNCHANGED <<riskVars, calc_pc, calc_todo, calc_acc, adj_todo>>
    /\ UNCHANGED <<levVars, brandVars, webVars, anVars, diVars, parseVars>>

\* both threads are done with their calls
ConcResume ==
    /\ calc_pc # "running" /\ adj_pc # "running"
    /\ calc_pc = "done" \/ adj_pc = "done"
    /\ calc_pc' = "idle"
    /\ adj_pc' = "idle"
    /\ features' = NoFeatures
    /\ risk_score' = 0
    /\ risk_factors' = <<>>
    /\ new_weights' = <<>>
    /\ old_weights' = risk_weights
    /\ calc_acc' = [total_weight |-> 0, risk_factors |-> <<>>]
    /\ UNCHANGED <<risk_weights, pc, calc_todo, adj_todo>>
    /\ UNCHANGED <<levVars, brandVars, webVars, anVars, diVars, parseVars>>

ConcInit ==
    RiskInit /\ LevIdle /\ BrandIdle /\ WebIdle /\ AnIdle /\ DiIdle /\ ConcIdle
    /\ ParseIdle

ConcNext ==
    \/ \E feats \in ConcFeatures : CalcBegin(feats)
    \/ CalcStep
    \/ CalcReturn
    \/ \E w \in OverrideInputs : AdjBegin(w)
    \/ AdjStep
    \/ AdjReturn
    \/ ConcResume

SpecConc == ConcInit /\ [][ConcNext]_vars

\* C17: a calculate_risk call that runs concurrently with one
\* adjust_weights(W) call returns what it returns with the table before the
\* update or with the table after it, never a mix of the two.
C17_WeightUpdateAtomic ==
    (calc_pc = "done") =>
        LET result == [risk_score |-> risk_score, risk_factors |-> risk_factors]
        IN  \/ result = CalculateRisk(old_weights, features)
            \/ result = CalculateRisk(AdjustWeights(old_weights, new_weights),
                                      features)

(***************************************************************************)
(* brand_matcher.py : find_matches on labels that imitate a brand          *)
(***************************************************************************)
\* the table of confusable tokens, each pair in both directions
ConfusablePairs ==
    { <<<<"0">>, <<"o">>>>, <<<<"o">>, <<"0">>>>,
      <<<<"1">>, <<"l">>>>, <<<<"l">>, <<"1">>>>,
      <<<<"1">>, <<"i">>>>, <<<<"i">>, <<"1">>>>,
      <<<<"5">>, <<"s">>>>, <<<<"s">>, <<"5">>>>,
      <<<<"r", "n">>, <<"m">>>>, <<<<"m">>, <<"r", "n">>>>,
      <<<<"c", "l">>, <<"d">>>>, <<<<"d">>, <<"c", "l">>>>,
      <<<<"v", "v">>, <<"w">>>>, <<<<"w">>, <<"v", "v">>>>,
      <<<<"n", "n">>, <<"m">>>>, <<<<"m">>, <<"n", "n">>>> }

\* a brands file with a brand that holds a digit
file_brands_digit ==
    << <<"1","p","a","s","s","w","o","r","d">>, <<"a","m","a","z","o","n">> >>

HomoglyphBrandLists == {default_brands, file_brands_digit}

\* the brands of a list that are long enough for the homoglyph pass
LongBrands(brand_list) ==
    { brand_list[i] : i \in { j \in 1..Len(brand_list) : Len(brand_list[j]) >= 4 } }

\* the candidates of brand B: B with one confusable token substituted
Candidates(B) ==
    { Replace(B, p[1], p[2]) : p \in { q \in ConfusablePairs : Contains(q[1], B) } }

\* the labels handed to find_matches: the candidates of the brands, alone
\* and inside a longer label
ImitatingLabels(brand_list) ==
    UNION { { c, <<"m", "y">> \o c, c \o <<"-", "i", "d">> } :
              c \in UNION { Candidates(B) : B \in LongBrands(brand_list) } }

HomoglyphInit ==
    /\ RiskInit /\ LevIdle /\ WebIdle /\ AnIdle /\ DiIdle /\ ConcIdle
    /\ ParseIdle
    /\ brands \in HomoglyphBrandLists
    /\ bm_extracted = [subdomain |-> <<>>, domain |-> <<>>]
    /\ bm_matches = <<>>
    /\ bm_pc = "idle"

HomoglyphNext ==
    \/ \E dom \in ImitatingLabels(brands) : DoFindMatches(<<>>, dom)
    \/ BrandResume

SpecHomoglyph == HomoglyphInit /\ [][HomoglyphNext]_vars

\* TRUE iff find_matches returned a match of the given kind for brand B
HasMatch(kind, B) ==
    \E i \in 1..Len(bm_matches) :
        bm_matches[i].type = kind /\ bm_matches[i].brand = B

\* C19: for every brand B of at least 4 letters and every directed pair of
\* the confusable table whose original occurs in B, a domain label equal to
\* the candidate yields a homoglyph_attack match for B, and a label that
\* strictly contains the candidate yields a partial_homoglyph match for B.
C19_FullConfusableTable ==
    bm_pc = "returned" =>
        \A B \in LongBrands(brands) :
            \A c \in Candidates(B) :
                LET D == Lower(bm_extracted.domain)
                IN  /\ D = Lower(c) => HasMatch("homoglyph_attack", B)
                    /\ (D # Lower(c) /\ Contains(Lower(c), D)) =>
                           HasMatch("partial_homoglyph", B)

(***************************************************************************)
(* url_parser.py : URLParser.parse on URLs put together from parts         *)
(***************************************************************************)
\* hosts, each with what tldextract.extract returns for it
ParseHosts ==
    { [host |-> <<"g", "0", "0", "g", "l", "e", ".", "t", "k">>,
       extracted |-> [subdomain |-> <<>>, domain |-> <<"g", "0", "0", "g", "l", "e">>,
                      suffix |-> <<"t", "k">>]],
      [host |-> <<"p", "a", "y", "p", "a", "1", ".", "c", "o", "m">>,
       extracted |-> [subdomain |-> <<>>, domain |-> <<"p", "a", "y", "p", "a", "1">>,
                      suffix |-> <<"c", "o", "m">>]],
      [host |-> <<"1", "9", "2", ".", "1", "6", "8", ".", "1", ".", "1">>,
       extracted |-> [subdomain |-> <<>>, domain |-> <<"1", "9", "2", ".", "1", "6", "8", ".", "1", ".", "1">>,
                      suffix |-> <<>>]],
      [host |-> <<"x", "n", "-", "-", "p", "y", "p", "a", "l", "-", "4", "v", "e", ".", "c", "o", "m">>,
       extracted |-> [subdomain |-> <<>>, domain |-> <<"x", "n", "-", "-", "p", "y", "p", "a", "l", "-", "4", "v", "e">>,
                      suffix |-> <<"c", "o", "m">>]],
      [host |-> <<"a", ".", "b", ".", "c", ".", "d", ".", "e", "v", "i", "l", ".", "x", "y", "z">>,
       extracted |-> [subdomain |-> <<"a", ".", "b", ".", "c", ".", "d">>, domain |-> <<"e", "v", "i", "l">>,
                      suffix |-> <<"x", "y", "z">>]],
      [host |-> <<"g", "%", "6", "f", "o", "g", "l", "e", ".", "c", "o", "m">>,
       extracted |-> [subdomain |-> <<>>, domain |-> <<"g", "%", "6", "f", "o", "g", "l", "e">>,
                      suffix |-> <<"c", "o", "m">>]],
      [host |-> <<"[", ":", ":", "1", "]">>,
       extracted |-> [subdomain |-> <<>>, domain |-> <<"[", ":", ":", "1", "]">>,
                      suffix |-> <<>>]] }

\* what stands between the scheme and the host
ParseUserinfo == { <<>>, <<"u", "s", "e", "r", ":", "p", "a", "s", "s", "@">> }

\* the port, as written after the host
ParsePorts == { <<>>, <<":", "8", "0", "8", "0">>, <<":", "4", "4", "3">>, <<":", "8", "0">> }

\* paths: none, plain, with a percent-encoded byte, and with a percent sign
\* that no two hex digits follow
ParsePaths ==
    { <<>>, <<"/", "l", "o", "g", "i", "n">>, <<"/", "%", "6", "C", "o", "g", "i", "n">>,
      <<"/", "%", "z", "z">>, <<"/", "a", "%", "2">> }

\* what the caller writes in front of the host
ParseSchemes == { <<>>, <<"h", "t", "t", "p", ":", "/", "/">>, <<"h", "t", "t", "p", "s", ":", "/", "/">> }

\* the URL scheme + userinfo + host + port + path with what
\* urllib.parse.urlparse and tldextract.extract return for it; parse puts
\* http:// in front of a URL that starts with neither http:// nor https://.
\* port is the port of the URL, without the colon, <<>> if it has none.
MakeUrl(scheme, userinfo, h, port, path) ==
    LET written == IF scheme = <<>> THEN <<"h", "t", "t", "p", ":", "/", "/">> ELSE scheme
        netloc  == userinfo \o h.host \o port
    IN  [raw |-> scheme \o netloc \o path,
         is_str |-> TRUE,
         normalized |-> written \o netloc \o path,
         scheme |-> SubSeq(written, 1, Len(written) - 3),
         netloc |-> netloc,
         port |-> IF port = <<>> THEN <<>> ELSE Tail(port),
         path |-> path,
         query |-> "", fragment |-> "",
         extracted |-> h.extracted,
         geturl_len |-> Len(written) + Len(netloc) + Len(path)]

ParseInputs ==
    { MakeUrl(scheme, userinfo, h, port, path) :
        scheme \in ParseSchemes, userinfo \in ParseUserinfo,
        h \in ParseHosts, port \in ParsePorts, path \in ParsePaths }
    \cup { url_not_a_string }

\* a caller invokes parse(url)
DoParse(url) ==
    /\ up_pc = "idle"
    /\ up_url' = url
    /\ up_result' = UrlParse(url)
    /\ up_pc' = IF UrlParse(url).raised THEN "raised" ELSE "returned"
    /\ UNCHANGED <<riskVars, levVars, brandVars, webVars, anVars, diVars,
                   concVars>>

\* the caller is done with the outcome
ParseResume ==
    /\ up_pc # "idle"
    /\ up_pc' = "idle"
    /\ up_url' = <<>>
    /\ up_result' = <<>>
    /\ UNCHANGED <<riskVars, levVars, brandVars, webVars, anVars, diVars,
                   concVars>>

ParseInit ==
    RiskInit /\ LevIdle /\ BrandIdle /\ WebIdle /\ AnIdle /\ DiIdle /\ ConcIdle
    /\ ParseIdle

ParseNext ==
    \/ \E url \in ParseInputs : DoParse(url)
    \/ ParseResume

SpecParse == ParseInit /\ [][ParseNext]_vars

\* TRUE iff str holds a percent sign followed by two hex digits
HasPercentByte(str) ==
    \E i \in 1..Len(str) :
        /\ i + 2 <= Len(str)
        /\ str[i] = "%"
        /\ \A k \in {i + 1, i + 2} :
              str[k] \in {"0", "1", "2", "3", "4", "5", "6", "7", "8", "9",
                          "a", "b", "c", "d", "e", "f",
                          "A", "B", "C", "D", "E", "F"}

\* how many traits of the kind the parse returned
TraitCount(kind) ==
    Cardinality({ i \in 1..Len(up_result.value.suspicious_traits) :
                    up_result.value.suspicious_traits[i].type = kind })

\* C20: for a URL whose host or path holds a percent-encoded byte, parse
\* returns normally with exactly one hex_encoding trait; for a URL without
\* one in host and path it returns no hex_encoding trait.
C20_HexEncodingTrait ==
    (up_pc # "idle" /\ up_url.is_str) =>
        IF HasPercentByte(up_url.netloc) \/ HasPercentByte(up_url.path)
        THEN up_pc = "returned" /\ TraitCount("hex_encoding") = 1
        ELSE up_pc = "returned" => TraitCount("hex_encoding") = 0

\* C23: parse returns a non_standard_port trait exactly when the URL has a
\* port and the port is neither 80 nor 443; a URL without a port, also one
\* with userinfo or an IPv6 literal host, and a URL with port 80 or 443 get
\* no non_standard_port trait.
C23_NonStandardPort ==
    (up_pc = "returned") =>
        IF up_url.port \notin {<<>>, <<"8", "0">>, <<"4", "4", "3">>}
        THEN TraitCount("non_standard_port") = 1
        ELSE TraitCount("non_standard_port") = 0

\* the kinds of the traits url_parser.parse returns for the URL of the call
ParsedTraitTypes ==
    LET traits == UrlParse(an_url).value.suspicious_traits
    IN  {traits[i].type : i \in 1..Len(traits)}

\* TRUE iff the registration step of the call has skipped the lookup and
\* returned the ip_address_no_whois record
LookupSkipped ==
    /\ an_pc \in {"scoring", "returned"}
    /\ an_answer = NoAnswer
    /\ an_domain_info.domain_exists = FALSE
    /\ Len(an_domain_info.suspicious_traits) = 1
    /\ an_domain_info.suspicious_traits[1].type = "ip_address_no_whois"

\* C24: within one analyze call the parser returns an ip_address trait for
\* the host exactly when the registration step skips the lookup and returns
\* the ip_address_no_whois record; no call is inside, or has made, a WHOIS
\* lookup for a host flagged ip_address; private_ip comes only with
\* ip_address.
C24_IpDecisionsAgree ==
    (an_pc \in {"lookup", "scoring", "returned"}) =>
        /\ ("ip_address" \in ParsedTraitTypes) <=> LookupSkipped
        /\ ("private_ip" \in ParsedTraitTypes) => ("ip_address" \in ParsedTraitTypes)

====
